---------------------------- MODULE Spec2Model ----------------------------
(***************************************************************************)
(* A model of the FMI 2.0 export core of fmu-forge                         *)
(* (src/fmi2/FmuToolsExport.cpp): one FmuComponentBase instance, from the  *)
(* end of the base-class constructor to the calls a host makes on it.      *)
(***************************************************************************)
EXTENDS Integers, Sequences, FiniteSets, TLC

VARIABLES
    phase,                    \* where the instance is: being constructed inside fmi2Instantiate, handed to the host, or lost to an escaped exception
    m_fmuType,                \* FmuComponentBase::m_fmuType, "unset" until initializeType stores it
    m_fmuMachineState,        \* FmuComponentBase::m_fmuMachineState
    m_variables,              \* FmuComponentBase::m_variables (std::set<FmuVariableExport>)
    m_valueReferenceCounter,  \* FmuComponentBase::m_valueReferenceCounter (one counter per scalar type)
    m_unitDefinitions,        \* FmuComponentBase::m_unitDefinitions (name -> definition)
    m_derivatives,            \* FmuComponentBase::m_derivatives (derivative name -> state name, dependency names)
    m_variableDependencies,   \* FmuComponentBase::m_variableDependencies (variable name -> dependency names)
    m_preStepCallbacks,       \* FmuComponentBase::m_preStepCallbacks
    m_postStepCallbacks,      \* FmuComponentBase::m_postStepCallbacks
    mem,                      \* the model author's memory cells that variables are bound to
    m_instanceName,           \* FmuComponentBase::m_instanceName
    m_logCategories_enabled,  \* FmuComponentBase::m_logCategories_enabled (category -> enabled)
    m_debug_logging_enabled,  \* FmuComponentBase::m_debug_logging_enabled
    m_logCategories_debug,    \* FmuComponentBase::m_logCategories_debug (the debug categories)
    NDEBUG,                   \* whether the library was compiled with NDEBUG (assert does nothing)
    m_resources_location,     \* FmuComponentBase::m_resources_location, a string as its characters
    modelDescription_xml,     \* the file path + "/modelDescription.xml": "absent" or the document in it
    regLog,                   \* history: names of the accepted AddFmuVariable calls, in call order
    last                      \* history: the last call made on the instance and what it yielded

vars == <<phase, m_fmuType, m_fmuMachineState, m_variables, m_valueReferenceCounter, m_unitDefinitions,
          m_derivatives, m_variableDependencies,
          m_preStepCallbacks, m_postStepCallbacks, mem, m_instanceName, m_logCategories_enabled,
          m_debug_logging_enabled, m_logCategories_debug, NDEBUG, m_resources_location,
          modelDescription_xml, regLog, last>>

registry == <<m_variables, m_valueReferenceCounter, m_unitDefinitions, regLog>>
structure == <<m_derivatives, m_variableDependencies>>
callbacks == <<m_preStepCallbacks, m_postStepCallbacks>>
logging == <<m_instanceName, m_logCategories_enabled, m_debug_logging_enabled,
             m_logCategories_debug, NDEBUG>>
files == <<m_resources_location, modelDescription_xml>>

-----------------------------------------------------------------------------
(* Bounds of the model *)

MaxVars == 2          \* accepted AddFmuVariable calls after the one for "time"
MaxCallbacks == 3     \* callbacks per list
MaxDeps == 2          \* names in a dependency list

-----------------------------------------------------------------------------
(* Enumerations *)

FmuMachineState == {"instantiated", "initializationMode", "stepCompleted", "stepInProgress",
                    "stepFailed", "error", "fatal"}

\* The six enumerators of fmi2Status that DoStep's switch names.
KnownStatus == {"fmi2OK", "fmi2Warning", "fmi2Discard", "fmi2Error", "fmi2Fatal", "fmi2Pending"}

\* An fmi2Status value that is none of the six enumerators (the switch's default).
OtherStatus == "fmi2Other"

HookStatus == KnownStatus \cup {OtherStatus}

\* A call that ended by throwing std::runtime_error yields this instead of a value.
Exception == "exception"

Types == {"Real", "Integer", "Boolean", "String"}

Min(S) == CHOOSE x \in S : \A y \in S : x <= y

-----------------------------------------------------------------------------
(* The history record of a call *)

\* The arguments of a call that registers or rebinds, when the call is neither.
NoArgs == [varbind |-> [kind |-> "none", cell |-> "none"], name |-> "none",
           scalartype |-> "none", unitname |-> "none", description |-> "none",
           causality |-> "none", variability |-> "none", initial |-> "none"]

NoCall == [op |-> "none", pre |-> "instantiated", hook |-> "none", saw |-> "none",
           ret |-> "none", trace |-> <<>>, vr |-> 0, type |-> "none", name |-> "none",
           arg |-> NoArgs, what |-> "none", value |-> 0, state |-> "none", deps |-> <<>>,
           log |-> <<>>, uri |-> <<>>, types |-> <<>>,
           unit |-> [name |-> "none", exp |-> <<0, 0, 0, 0, 0, 0, 0, 0>>],
           argv |-> <<>>, handle |-> "none", path |-> <<>>, exit |-> -1]

\* op: the operation; pre: the lifecycle state it was called in; hook, saw: the
\* status its hook returned and the lifecycle state the hook saw; ret: what the
\* caller got; trace: the callbacks and hooks it ran, in order; arg: its
\* registration arguments; what: the message of the exception it threw; value:
\* the value it was given or gave back; state, deps: the state name and the
\* dependency names of a declaration; log: the calls of the host's logger it
\* made, in order; uri: the resource location a constructor was given; types:
\* the FMU types createModelDescription could instantiate; unit: the unit
\* definition a registration of a unit was given; argv, handle, path, exit:
\* the arguments after argv[0] of a run of the generator, what
\* RuntimeLinkLibrary gave it ("none" when it was not called), its output
\* path and the value its main returned (-1 when main did not return).
Call(op, pre, hook, saw, ret, trace) ==
    [op |-> op, pre |-> pre, hook |-> hook, saw |-> saw, ret |-> ret, trace |-> trace,
     vr |-> 0, type |-> "none", name |-> "none", arg |-> NoArgs, what |-> "none",
     value |-> 0, state |-> "none", deps |-> <<>>, log |-> <<>>, uri |-> <<>>,
     types |-> <<>>, unit |-> [name |-> "none", exp |-> <<0, 0, 0, 0, 0, 0, 0, 0>>],
     argv |-> <<>>, handle |-> "none", path |-> <<>>, exit |-> -1]

-----------------------------------------------------------------------------
(* Units *)

\* UnitDefinition(name): a unit with every exponent zero. The exponents are
\* <<kg, m, s, A, K, mol, cd, rad>>.
UnitDefinition(name) == [name |-> name, exp |-> <<0, 0, 0, 0, 0, 0, 0, 0>>]

\* The names in common_unitdefinitions, with their exponents.
common_unitdefinitions ==
    { [name |-> "kg",     exp |-> <<1, 0, 0, 0, 0, 0, 0, 0>>],
      [name |-> "m",      exp |-> <<0, 1, 0, 0, 0, 0, 0, 0>>],
      [name |-> "s",      exp |-> <<0, 0, 1, 0, 0, 0, 0, 0>>],
      [name |-> "A",      exp |-> <<0, 0, 0, 1, 0, 0, 0, 0>>],
      [name |-> "K",      exp |-> <<0, 0, 0, 0, 1, 0, 0, 0>>],
      [name |-> "mol",    exp |-> <<0, 0, 0, 0, 0, 1, 0, 0>>],
      [name |-> "cd",     exp |-> <<0, 0, 0, 0, 0, 0, 1, 0>>],
      [name |-> "rad",    exp |-> <<0, 0, 0, 0, 0, 0, 0, 1>>],
      [name |-> "m/s",    exp |-> <<0, 1, -1, 0, 0, 0, 0, 0>>],
      [name |-> "m/s2",   exp |-> <<0, 1, -2, 0, 0, 0, 0, 0>>],
      [name |-> "rad/s",  exp |-> <<0, 0, -1, 0, 0, 0, 0, 1>>],
      [name |-> "rad/s2", exp |-> <<0, 0, -2, 0, 0, 0, 0, 1>>],
      [name |-> "N",      exp |-> <<1, 1, -2, 0, 0, 0, 0, 0>>],
      [name |-> "Nm",     exp |-> <<1, 2, -2, 0, 0, 0, 0, 0>>],
      [name |-> "N/m2",   exp |-> <<1, -1, -2, 0, 0, 0, 0, 0>>] }

\* The common-unit library left out of the search.
MatchCommonUnit_NotConsulted(unitname) == {}

\* std::find_if over common_unitdefinitions with predicate_samename: the common
\* units that have the name (none, or the one).
MatchCommonUnit(unitname) == {u \in common_unitdefinitions : u.name = unitname}

\* m_unitDefinitions[unit_definition.name] = unit_definition
\* addUnitDefinition keeping the definition a name already has (insert).
addUnitDefinition_KeepsExisting(units, unit_definition) ==
    [n \in (DOMAIN units) \cup {unit_definition.name} |->
        IF n \in DOMAIN units THEN units[n] ELSE unit_definition]

addUnitDefinition(units, unit_definition) ==
    [n \in (DOMAIN units) \cup {unit_definition.name} |->
        IF n = unit_definition.name THEN unit_definition ELSE units[n]]

-----------------------------------------------------------------------------
(* Variables *)

\* The variable names of the model, in the order std::string compares them.
NameOrder == <<"der(x)", "time", "v", "x">>

NameIndex(name) == CHOOSE i \in 1..Len(NameOrder) : NameOrder[i] = name

\* Iteration over m_variables from begin() to end(): the set keeps its elements
\* ordered by name.
Iterate(variables) ==
    LET present == SelectSeq(NameOrder, LAMBDA n : \E v \in variables : v.name = n)
    IN  [i \in 1..Len(present) |-> CHOOSE v \in variables : v.name = present[i]]

\* m_variables.end() as a position of the iteration.
End(variables) == Len(Iterate(variables)) + 1

\* std::find_if: the position of the first element that satisfies P, or the end.
find_if(seq, P(_)) ==
    LET hits == {i \in 1..Len(seq) : P(seq[i])}
    IN  IF hits = {} THEN Len(seq) + 1 ELSE Min(hits)

\* findByName with the result of std::string::compare taken as "equal".
findByName_CompareAsEqual(variables, name) ==
    find_if(Iterate(variables), LAMBDA var : var.name # name)

\* The predicate is !var.GetName().compare(name): true when the names are equal.
findByName(variables, name) ==
    find_if(Iterate(variables), LAMBDA var : var.name = name)

\* findByValrefType with a predicate that compares the value reference only.
findByValrefType_AnyType(variables, vr, vartype) ==
    find_if(Iterate(variables), LAMBDA var : var.vr = vr)

findByValrefType(variables, vr, vartype) ==
    find_if(Iterate(variables), LAMBDA var : var.vr = vr /\ var.type = vartype)

\* The value behind a binding: the pointed-to cell, or what the getter yields.
CurrentValue(varbind, memory) == memory[varbind.cell]

\* is_pointer_variant(m_varbind)
is_pointer_variant(varbind) == varbind.kind = "pointer"

\* A fmi2String is a character buffer that ends at its first NUL; a std::string
\* is the characters alone.
NUL == "NUL"

\* std::string(val): the characters of the buffer before its first NUL.
std_string(val) ==
    LET ends == {i \in 1..Len(val) : val[i] = NUL}
    IN  IF ends = {} THEN val ELSE SubSeq(val, 1, Min(ends) - 1)

\* std::string::c_str(): the characters, then a NUL.
c_str(str) == Append(str, NUL)

\* What the setter of an accessor pair does with the value: the pairs of the
\* model are made with an empty setter body, so nothing.
Setter(varbind, val, memory) == memory

\* SetValue appending to a String member instead of assigning it.
SetValue_Appends(var, val, memory) ==
    LET v == IF var.type = "String"
             THEN CurrentValue(var.varbind, memory) \o std_string(val) ELSE val
    IN  IF is_pointer_variant(var.varbind) THEN [memory EXCEPT ![var.varbind.cell] = v]
        ELSE Setter(var.varbind, v, memory)

\* FmuVariableExport::SetValue: through the pointer, or through the setter; a
\* String is converted to a std::string first, the other types are assigned.
SetValue(var, val, memory) ==
    LET v == IF var.type = "String" THEN std_string(val) ELSE val
    IN  IF is_pointer_variant(var.varbind) THEN [memory EXCEPT ![var.varbind.cell] = v]
        ELSE Setter(var.varbind, v, memory)

\* FmuVariableExport::GetValue: what the pointer or the getter yields; a String
\* is handed out as a fmi2String.
GetValue(var, memory) ==
    IF var.type = "String" THEN c_str(CurrentValue(var.varbind, memory))
    ELSE CurrentValue(var.varbind, memory)

\* Members of FmuVariableExport before the constructor body runs.
DefaultAllowedStart == TRUE
DefaultRequiredStart == FALSE

\* FmuVariableExport::FmuVariableExport(varbind, name, type, causality, variability, initial)
FmuVariableExport(varbind, name, type, causality, variability, initial) ==
    LET forbidden == initial = "calculated" \/ causality = "independent"
        required  == initial = "exact" \/ initial = "approx" \/ causality = "input"
        allowed1  == IF forbidden THEN FALSE ELSE DefaultAllowedStart
        required1 == IF forbidden THEN FALSE ELSE DefaultRequiredStart
    IN  [name |-> name, type |-> type, vr |-> 0, unit |-> "", description |-> "",
         causality |-> causality, variability |-> variability, initial |-> initial,
         varbind |-> varbind,
         allowed_start  |-> IF required THEN TRUE ELSE allowed1,
         required_start |-> IF required THEN TRUE ELSE required1,
         has_start |-> FALSE, start |-> 0]

\* FmuVariableExport::SetStartVal: ignored unless a start value is allowed.
SetStartVal(var, start) ==
    IF ~var.allowed_start THEN var
    ELSE [var EXCEPT !.has_start = TRUE, !.start = start]

\* ExposeCurrentValueAsStart capturing whenever a start value is allowed.
ExposeCurrentValueAsStart_WhenAllowed(var, memory) ==
    IF var.allowed_start
    THEN [var EXCEPT !.has_start = TRUE, !.start = CurrentValue(var.varbind, memory)]
    ELSE var

\* FmuVariableExport::ExposeCurrentValueAsStart
ExposeCurrentValueAsStart(var, memory) ==
    IF var.required_start /\ var.allowed_start
    THEN [var EXCEPT !.has_start = TRUE, !.start = CurrentValue(var.varbind, memory)]
    ELSE var

\* One counter for all scalar types instead of one per type.
PreIncremented_SharedCounter(counter, scalartype) ==
    1 + (CHOOSE n \in {counter[t] : t \in Types} : \A t \in Types : counter[t] <= n)

\* ++m_valueReferenceCounter[scalartype]: the value stored and handed on.
PreIncremented(counter, scalartype) == counter[scalartype] + 1

\* The messages of the two runtime_errors AddFmuVariable throws on its arguments.
UnknownUnit == "Variable unit is not registered within this FmuComponentBase."
DuplicateName == "Cannot add two FMU variables with the same name."

\* The registry part of a component, as AddFmuVariable reads and writes it.
Registry(variables, counter, units, log) ==
    [variables |-> variables, counter |-> counter, units |-> units, log |-> log]

\* AddFmuVariable taking the value reference before it looks for a variable
\* of the same name.
AddFmuVariableOn_CountsFirst(c, a, memory) ==
    LET known   == a.unitname \in DOMAIN c.units
        commons == MatchCommonUnit(a.unitname)
        units1  == IF known \/ commons = {} THEN c.units
                   ELSE addUnitDefinition(c.units, CHOOSE u \in commons : TRUE)
        counter1 == [c.counter EXCEPT ![a.scalartype] = PreIncremented(c.counter, a.scalartype)]
        newvar0 == FmuVariableExport(a.varbind, a.name, a.scalartype, a.causality,
                                     a.variability, a.initial)
        newvar1 == [newvar0 EXCEPT !.unit = a.unitname,
                                   !.vr = PreIncremented(c.counter, a.scalartype),
                                   !.description = a.description]
        newvar  == ExposeCurrentValueAsStart(newvar1, memory)
    IN  IF ~known /\ commons = {}
        THEN [threw |-> TRUE, what |-> UnknownUnit, c |-> c]
        ELSE IF findByName(c.variables, a.name) # End(c.variables)
        THEN [threw |-> TRUE, what |-> DuplicateName,
              c |-> [c EXCEPT !.units = units1, !.counter = counter1]]
        ELSE [threw |-> FALSE, what |-> "none",
              c |-> Registry(c.variables \cup {newvar}, counter1, units1,
                             Append(c.log, a.name))]

\* FmuComponentBase::AddFmuVariable on registry c with arguments a: whether it
\* threw, and the registry it leaves.
AddFmuVariableOn(c, a, memory) ==
    LET known   == a.unitname \in DOMAIN c.units
        commons == MatchCommonUnit(a.unitname)
        units1  == IF known \/ commons = {} THEN c.units
                   ELSE addUnitDefinition(c.units, CHOOSE u \in commons : TRUE)
        counter1 == [c.counter EXCEPT ![a.scalartype] = PreIncremented(c.counter, a.scalartype)]
        newvar0 == FmuVariableExport(a.varbind, a.name, a.scalartype, a.causality,
                                     a.variability, a.initial)
        newvar1 == [newvar0 EXCEPT !.unit = a.unitname,
                                   !.vr = PreIncremented(c.counter, a.scalartype),
                                   !.description = a.description]
        newvar  == ExposeCurrentValueAsStart(newvar1, memory)
    IN  IF ~known /\ commons = {}
        THEN [threw |-> TRUE, what |-> UnknownUnit, c |-> c]
        ELSE IF findByName(c.variables, a.name) # End(c.variables)
        THEN [threw |-> TRUE, what |-> DuplicateName, c |-> [c EXCEPT !.units = units1]]
        ELSE [threw |-> FALSE, what |-> "none",
              c |-> Registry(c.variables \cup {newvar}, counter1, units1,
                             Append(c.log, a.name))]

\* Arguments of an AddFmuVariable call.
AddArgs(varbind, name, scalartype, unitname, description, causality, variability, initial) ==
    [varbind |-> varbind, name |-> name, scalartype |-> scalartype, unitname |-> unitname,
     description |-> description, causality |-> causality, variability |-> variability,
     initial |-> initial]

\* A copy that leaves its own m_start default-constructed.
FmuVariableExportCopy_WithoutStart(other) ==
    [name |-> other.name, type |-> other.type, vr |-> other.vr, unit |-> other.unit,
     description |-> other.description, causality |-> other.causality,
     variability |-> other.variability, initial |-> other.initial,
     has_start |-> other.has_start, varbind |-> other.varbind, start |-> 0,
     allowed_start |-> other.allowed_start, required_start |-> other.required_start]

\* FmuVariableExport::FmuVariableExport(const FmuVariableExport& other): the
\* base class copies its members, the body copies the other four.
FmuVariableExportCopy(other) ==
    [name |-> other.name, type |-> other.type, vr |-> other.vr, unit |-> other.unit,
     description |-> other.description, causality |-> other.causality,
     variability |-> other.variability, initial |-> other.initial,
     has_start |-> other.has_start, varbind |-> other.varbind, start |-> other.start,
     allowed_start |-> other.allowed_start, required_start |-> other.required_start]

\* FmuVariableExport::Bind
Bind(var, varbind) == [var EXCEPT !.varbind = varbind]

\* FmuComponentBase::RebindVariable on a set of variables: whether it returned
\* true, and the set it leaves.
RebindVariableOn(variables, varbind, name) ==
    LET it == findByName(variables, name)
    IN  IF it # End(variables)
        THEN LET old    == Iterate(variables)[it]
                 newvar == Bind(FmuVariableExportCopy(old), varbind)
                 erased == variables \ {old}
                 inserted == \A v \in erased : v.name # newvar.name
             IN  [ret |-> inserted,
                  variables |-> IF inserted THEN erased \cup {newvar} ELSE erased]
        ELSE [ret |-> FALSE, variables |-> variables]


\* addDerivative storing with operator[]: the last declaration of a name wins.
addDerivative_Overwrites(derivatives, variables, derivative_name, state_name, dependency_names) ==
    IF findByName(variables, state_name) = End(variables)
    THEN [threw |-> TRUE, derivatives |-> derivatives]
    ELSE IF findByName(variables, derivative_name) = End(variables)
    THEN [threw |-> TRUE, derivatives |-> derivatives]
    ELSE [threw |-> FALSE,
          derivatives |->
              [n \in (DOMAIN derivatives) \cup {derivative_name} |->
                  IF n = derivative_name
                  THEN [state |-> state_name, deps |-> dependency_names]
                  ELSE derivatives[n]]]

\* FmuComponentBase::addDerivative: whether it threw, and the map it leaves
\* (insert keeps the record of a name that already has one).
addDerivative(derivatives, variables, derivative_name, state_name, dependency_names) ==
    IF findByName(variables, state_name) = End(variables)
    THEN [threw |-> TRUE, derivatives |-> derivatives]
    ELSE IF findByName(variables, derivative_name) = End(variables)
    THEN [threw |-> TRUE, derivatives |-> derivatives]
    ELSE [threw |-> FALSE,
          derivatives |->
              IF derivative_name \in DOMAIN derivatives THEN derivatives
              ELSE [n \in (DOMAIN derivatives) \cup {derivative_name} |->
                       IF n = derivative_name
                       THEN [state |-> state_name, deps |-> dependency_names]
                       ELSE derivatives[n]]]

\* FmuComponentBase::isDerivative: the state name, or "" for none.
isDerivative(derivatives, name) ==
    IF name \notin DOMAIN derivatives THEN "" ELSE derivatives[name].state

\* addDependencies assigning the list instead of appending to it.
addDependencies_Replaces(dependencies, variables, variable_name, dependency_names) ==
    IF findByName(variables, variable_name) = End(variables)
    THEN [threw |-> TRUE, dependencies |-> dependencies]
    ELSE IF \E i \in 1..Len(dependency_names) :
                findByName(variables, dependency_names[i]) = End(variables)
    THEN [threw |-> TRUE, dependencies |-> dependencies]
    ELSE [threw |-> FALSE,
          dependencies |->
              [n \in (DOMAIN dependencies) \cup {variable_name} |->
                  IF n = variable_name THEN dependency_names ELSE dependencies[n]]]

\* FmuComponentBase::addDependencies: whether it threw, and the map it leaves.
addDependencies(dependencies, variables, variable_name, dependency_names) ==
    IF findByName(variables, variable_name) = End(variables)
    THEN [threw |-> TRUE, dependencies |-> dependencies]
    ELSE IF \E i \in 1..Len(dependency_names) :
                findByName(variables, dependency_names[i]) = End(variables)
    THEN [threw |-> TRUE, dependencies |-> dependencies]
    ELSE [threw |-> FALSE,
          dependencies |->
              [n \in (DOMAIN dependencies) \cup {variable_name} |->
                  IF n = variable_name
                  THEN (IF n \in DOMAIN dependencies THEN dependencies[n] ELSE <<>>)
                       \o dependency_names
                  ELSE dependencies[n]]]

\* The messages of the two runtime_errors of the dependency check.
MissingOutputDependencies ==
    "Dependencies required for an 'output' variable with initial='approx' or 'calculated'"
MissingCalculatedParameterDependencies ==
    "Dependencies required for a 'calculatedParameter' variable"

\* The check that dependencies are defined, looking a variable up with
\* operator[], which gives a variable that has no list an empty one.
ExportModelDescriptionOn_Subscript(variables, dependencies) ==
    LET seq == Iterate(variables)
        output(var) == /\ var.causality = "output"
                       /\ var.initial \in {"approx", "calculated"}
        throws == {i \in 1..Len(seq) :
                      /\ seq[i].name \notin DOMAIN dependencies
                      /\ (output(seq[i]) \/ seq[i].causality = "calculatedParameter")}
        visited == IF throws = {} THEN {seq[i].name : i \in 1..Len(seq)}
                   ELSE {seq[i].name : i \in 1..Min(throws)}
        left == [n \in (DOMAIN dependencies) \cup visited |->
                    IF n \in DOMAIN dependencies THEN dependencies[n] ELSE <<>>]
    IN  IF throws = {}
        THEN [threw |-> FALSE, what |-> "none", name |-> "none", dependencies |-> left]
        ELSE [threw |-> TRUE,
              what |-> IF output(seq[Min(throws)]) THEN MissingOutputDependencies
                       ELSE MissingCalculatedParameterDependencies,
              name |-> seq[Min(throws)].name, dependencies |-> left]

\* FmuComponentBase::ExportModelDescription, the check that dependencies are
\* defined: the variables are visited in order, and the first one without an
\* entry in m_variableDependencies that is an output with initial approx or
\* calculated, or a calculatedParameter, makes the export throw. find() leaves
\* m_variableDependencies as it is.
ExportModelDescriptionOn(variables, dependencies) ==
    LET seq == Iterate(variables)
        output(var) == /\ var.causality = "output"
                       /\ var.initial \in {"approx", "calculated"}
        throws == {i \in 1..Len(seq) :
                      /\ seq[i].name \notin DOMAIN dependencies
                      /\ (output(seq[i]) \/ seq[i].causality = "calculatedParameter")}
    IN  IF throws = {}
        THEN [threw |-> FALSE, what |-> "none", name |-> "none",
              dependencies |-> dependencies]
        ELSE [threw |-> TRUE,
              what |-> IF output(seq[Min(throws)]) THEN MissingOutputDependencies
                       ELSE MissingCalculatedParameterDependencies,
              name |-> seq[Min(throws)].name, dependencies |-> dependencies]

\* The loop that caches the index of every variable with crt_index starting
\* at 0.
variableIndices_FromZero(variables) ==
    LET seq == Iterate(variables)
    IN  [name \in {seq[i].name : i \in 1..Len(seq)} |->
            (CHOOSE i \in 1..Len(seq) : seq[i].name = name) - 1]

\* FmuComponentBase::ExportModelDescription, the loop that caches the index of
\* every variable: crt_index starts at 1 and grows by one per variable.
variableIndices(variables) ==
    LET seq == Iterate(variables)
    IN  [name \in {seq[i].name : i \in 1..Len(seq)} |->
            CHOOSE i \in 1..Len(seq) : seq[i].name = name]

\* variableIndices[name]: operator[] gives a name that is not in the map 0.
IndexOf(name, variables) ==
    IF name \in DOMAIN variableIndices(variables) THEN variableIndices(variables)[name]
    ELSE 0

\* The list of indices the export writes for a list of names.
IndicesOf(names, variables) == [k \in 1..Len(names) |-> IndexOf(names[k], variables)]

\* FmuComponentBase::ExportModelDescription, the document: the ScalarVariable
\* elements with their index comments and derivative attributes (a sequence
\* with the attribute's value, or empty), and the blocks of ModelStructure.
\* Derivatives and InitialUnknowns come out in the order of a hash map, so the
\* model keeps their entries as sets.
Document(variables, derivatives, dependencies) ==
    LET seq == Iterate(variables)
    IN  [ModelVariables |->
             [i \in 1..Len(seq) |->
                 [Index |-> IndexOf(seq[i].name, variables),
                  name |-> seq[i].name,
                  derivative |-> IF isDerivative(derivatives, seq[i].name) # ""
                                 THEN <<IndexOf(isDerivative(derivatives, seq[i].name),
                                                variables)>>
                                 ELSE <<>>]],
         Outputs |->
             LET outputs == SelectSeq(seq, LAMBDA v : v.causality = "output")
             IN  [k \in 1..Len(outputs) |-> IndexOf(outputs[k].name, variables)],
         Derivatives |->
             {[index |-> IndexOf(d, variables),
               dependencies |-> IndicesOf(derivatives[d].deps, variables)] :
                 d \in DOMAIN derivatives},
         InitialUnknowns |->
             {[index |-> IndexOf(v, variables),
               dependencies |-> IndicesOf(dependencies[v], variables)] :
                 v \in DOMAIN dependencies}]

\* The export writing the file before it checks the dependencies.
ExportModelDescriptionSteps_WritesFirst(variables, derivatives, dependencies, existing) ==
    LET check == ExportModelDescriptionOn(variables, dependencies)
        written == <<Document(variables, derivatives, check.dependencies)>>
    IN  IF check.threw
        THEN [threw |-> TRUE, what |-> check.what, name |-> check.name,
              dependencies |-> check.dependencies,
              trace |-> <<"preModelDescriptionExport", "outFile">>, outFile |-> written]
        ELSE [threw |-> FALSE, what |-> check.what, name |-> check.name,
              dependencies |-> check.dependencies,
              trace |-> <<"preModelDescriptionExport", "outFile",
                          "postModelDescriptionExport">>,
              outFile |-> written]

\* FmuComponentBase::ExportModelDescription from its first statement to its
\* last: the pre-export hook, the check of the dependencies, the stream that
\* puts the document in path + "/modelDescription.xml", the post-export hook.
\* The steps it ran are in trace; outFile is the file it leaves, with
\* existing the file it found.
ExportModelDescriptionSteps(variables, derivatives, dependencies, existing) ==
    LET check == ExportModelDescriptionOn(variables, dependencies)
    IN  IF check.threw
        THEN [threw |-> TRUE, what |-> check.what, name |-> check.name,
              dependencies |-> check.dependencies,
              trace |-> <<"preModelDescriptionExport">>, outFile |-> existing]
        ELSE [threw |-> FALSE, what |-> check.what, name |-> check.name,
              dependencies |-> check.dependencies,
              trace |-> <<"preModelDescriptionExport", "outFile",
                          "postModelDescriptionExport">>,
              outFile |-> <<Document(variables, derivatives, check.dependencies)>>]

-----------------------------------------------------------------------------
(* Lifecycle *)

\* StepState with the fmi2Warning case falling into the fmi2Discard case.
StepState_WarningDiscards(status) ==
    CASE status = "fmi2OK"      -> "stepCompleted"
      [] status = "fmi2Warning" -> "stepFailed"
      [] status = "fmi2Discard" -> "stepFailed"
      [] status = "fmi2Error"   -> "error"
      [] status = "fmi2Fatal"   -> "fatal"
      [] status = "fmi2Pending" -> "stepInProgress"

\* The switch of DoStep: the machine state each known status leads to.
StepState(status) ==
    CASE status = "fmi2OK"      -> "stepCompleted"
      [] status = "fmi2Warning" -> "stepCompleted"
      [] status = "fmi2Discard" -> "stepFailed"
      [] status = "fmi2Error"   -> "error"
      [] status = "fmi2Fatal"   -> "fatal"
      [] status = "fmi2Pending" -> "stepInProgress"

\* executePreStepCallbacks / executePostStepCallbacks: the callbacks invoked, in
\* the order of the calls.
executePreStepCallbacks(pre) == [i \in 1..Len(pre) |-> pre[i]]

\* executePostStepCallbacks iterating from the back of the list.
executePostStepCallbacks_Reversed(post) == [i \in 1..Len(post) |-> post[Len(post) + 1 - i]]

executePostStepCallbacks(post) == [i \in 1..Len(post) |-> post[i]]

\* A step whose post-step callbacks run only when the hook reports a step
\* that went through.
StepCalls_PostOnSuccess(pre, hook, post, status) ==
    IF status \in {"fmi2OK", "fmi2Warning", "fmi2Pending"}
    THEN executePreStepCallbacks(pre) \o <<hook>> \o executePostStepCallbacks(post)
    ELSE executePreStepCallbacks(pre) \o <<hook>>

\* The calls DoStep and GetDerivatives make when their hook returns status,
\* in order: executePreStepCallbacks, the hook, executePostStepCallbacks. The
\* status is looked at after the three calls only (DoStep's switch) or not at
\* all (GetDerivatives).
StepCalls(pre, hook, post, status) ==
    executePreStepCallbacks(pre) \o <<hook>> \o executePostStepCallbacks(post)

\* EnterInitializationMode with the hook called before the state is set.
EnterInitializationModeOn_HookFirst(state, status) ==
    [saw |-> state, state |-> "initializationMode", ret |-> status]

\* FmuComponentBase::EnterInitializationMode in machine state `state` with a hook
\* that returns `status`: the state the hook runs in, the state left, the result.
EnterInitializationModeOn(state, status) ==
    LET state1 == "initializationMode"
    IN  [saw |-> state1, state |-> state1, ret |-> status]

\* ExitInitializationMode with the state following the hook's status.
ExitInitializationModeOn_StatusDriven(state, status) ==
    IF status = Exception
    THEN [saw |-> state, state |-> state, ret |-> Exception]
    ELSE [saw |-> state,
          state |-> CASE status = "fmi2Error" -> "error"
                      [] status = "fmi2Fatal" -> "fatal"
                      [] OTHER -> "stepCompleted",
          ret |-> status]

\* FmuComponentBase::ExitInitializationMode; the hook returns a status or throws.
ExitInitializationModeOn(state, status) ==
    IF status = Exception
    THEN [saw |-> state, state |-> state, ret |-> Exception]
    ELSE [saw |-> state, state |-> "stepCompleted", ret |-> status]

\* DoStep with a switch whose default case only breaks.
DoStepOn_SilentDefault(state, status) ==
    IF status \in KnownStatus
    THEN [saw |-> state, state |-> StepState(status), ret |-> status]
    ELSE [saw |-> state, state |-> state, ret |-> status]

\* FmuComponentBase::DoStep after the hook returned `status` and the post-step
\* callbacks ran: the state left and the result.
DoStepOn(state, status) ==
    IF status \in KnownStatus
    THEN [saw |-> state, state |-> StepState(status), ret |-> status]
    ELSE [saw |-> state, state |-> state, ret |-> Exception]

\* What the hooks can yield.
enterInitializationModeIMPL == HookStatus
exitInitializationModeIMPL == HookStatus \cup {Exception}
doStepIMPL == HookStatus
getDerivativesIMPL == HookStatus
newDiscreteStatesIMPL == HookStatus
completedIntegratorStepIMPL == HookStatus
setTimeIMPL == HookStatus
getContinuousStatesIMPL == HookStatus
setContinuousStatesIMPL == HookStatus

-----------------------------------------------------------------------------
(* Logging *)

\* std::unordered_map::operator[] on the enablement map: the value under the
\* key, and the map it leaves (a missing key is inserted with false).
Subscript(enabled, key) ==
    IF key \in DOMAIN enabled THEN [value |-> enabled[key], map |-> enabled]
    ELSE [value |-> FALSE,
          map |-> [k \in (DOMAIN enabled) \cup {key} |->
                      IF k = key THEN FALSE ELSE enabled[k]]]

\* sendToLog reading the enablement map before it looks the category up.
sendToLogOn_SubscriptFirst(enabled, debug_logging_enabled, debug, instanceName, msg, status, msg_cat, ndebug) ==
    LET sub == Subscript(enabled, msg_cat)
        emits == \/ sub.value
                 \/ msg_cat \notin DOMAIN enabled
                 \/ debug_logging_enabled /\ msg_cat \in debug
    IN  IF ~ndebug /\ msg_cat \notin DOMAIN enabled
        THEN [aborted |-> TRUE, log |-> <<>>, enabled |-> enabled]
        ELSE [aborted |-> FALSE,
              log |-> IF emits
                      THEN <<[instanceName |-> instanceName, status |-> status,
                              category |-> msg_cat, message |-> msg]>>
                      ELSE <<>>,
              enabled |-> sub.map]

\* FmuComponentBase::sendToLog: whether the assert ended the process (it is
\* compiled in unless the build defines NDEBUG), the calls of the host's logger, and
\* the enablement map it leaves. The || stops at the first true operand, so
\* operator[] runs only for a category that find() found.
sendToLogOn(enabled, debug_logging_enabled, debug, instanceName, msg, status, msg_cat, ndebug) ==
    LET absent == msg_cat \notin DOMAIN enabled
        sub == Subscript(enabled, msg_cat)
        emits == IF absent THEN TRUE
                 ELSE IF sub.value THEN TRUE
                 ELSE debug_logging_enabled /\ msg_cat \in debug
    IN  IF ~ndebug /\ absent
        THEN [aborted |-> TRUE, log |-> <<>>, enabled |-> enabled]
        ELSE [aborted |-> FALSE,
              log |-> IF emits
                      THEN <<[instanceName |-> instanceName, status |-> status,
                              category |-> msg_cat, message |-> msg]>>
                      ELSE <<>>,
              enabled |-> IF absent THEN enabled ELSE sub.map]

\* A call of sendToLog still to be made.
LogCall(msg, status, msg_cat) == [msg |-> msg, status |-> status, msg_cat |-> msg_cat]

\* The sendToLog calls of a sequence, one after the other, up to the one
\* whose assert ends the process.
RECURSIVE sendToLogAll(_, _, _, _, _, _)
sendToLogAll(enabled, debug_logging_enabled, debug, instanceName, calls, ndebug) ==
    IF calls = <<>> THEN [aborted |-> FALSE, log |-> <<>>, enabled |-> enabled]
    ELSE LET r == sendToLogOn(enabled, debug_logging_enabled, debug, instanceName,
                              Head(calls).msg, Head(calls).status, Head(calls).msg_cat,
                              ndebug)
             rest == sendToLogAll(r.enabled, debug_logging_enabled, debug, instanceName,
                                  Tail(calls), ndebug)
         IN  IF r.aborted THEN r
             ELSE [aborted |-> rest.aborted, log |-> r.log \o rest.log,
                   enabled |-> rest.enabled]

\* SetDebugLogging that leaves a category the map does not have out of it.
SetDebugLogging_KnownOnly(enabled, cat, value) ==
    [k \in DOMAIN enabled |-> IF k = cat THEN value ELSE enabled[k]]

\* FmuComponentBase::SetDebugLogging: operator[] never throws, the category is
\* stored whether the FMU lists it or not.
SetDebugLogging(enabled, cat, value) ==
    [k \in (DOMAIN enabled) \cup {cat} |-> IF k = cat THEN value ELSE enabled[k]]

\* fmi2SetDebugLogging, the loop over categories[0..nCategories-1].
RECURSIVE fmi2SetDebugLoggingOn(_, _, _)
fmi2SetDebugLoggingOn(enabled, loggingOn, categories) ==
    IF categories = <<>> THEN enabled
    ELSE fmi2SetDebugLoggingOn(SetDebugLogging(enabled, Head(categories), loggingOn),
                               loggingOn, Tail(categories))

\* FmuComponentBase::ExportModelDescription, the LogCategories element: one
\* Category per entry of m_logCategories_enabled, enabled or not, described
\* by whether the debug set has its name.
LogCategories(enabled, debug) ==
    {[name |-> cat,
      description |-> IF cat \in debug THEN "DebugCategory" ELSE "NotDebugCategory"] :
        cat \in DOMAIN enabled}

-----------------------------------------------------------------------------
(* The resource location *)
(* Strings that are parsed are sequences of their characters. *)

\* The characters \w matches, among the characters of the model's URIs.
WordCharacters == {"f", "i", "l", "e", "h", "t", "p", "r", "d"}

\* The position after the longest run of characters that satisfy P, from from.
RunEnd(str, from, P(_)) ==
    LET stops == {i \in from..Len(str) : ~P(str[i])}
    IN  IF stops = {} THEN Len(str) + 1 ELSE Min(stops)

At(str, i) == IF i \in 1..Len(str) THEN str[i] ELSE "end"

NoMatch == [matched |-> FALSE, scheme |-> <<>>, path |-> <<>>]

\* regex_search with url_patternA, ^(\w+):\/\/[^\/]*\/([^#\?]+)
url_patternA(str) ==
    LET w == RunEnd(str, 1, LAMBDA ch : ch \in WordCharacters)
        a == RunEnd(str, w + 3, LAMBDA ch : ch # "/")
        e == RunEnd(str, a + 1, LAMBDA ch : ch \notin {"#", "?"})
    IN  IF /\ w > 1
           /\ At(str, w) = ":" /\ At(str, w + 1) = "/" /\ At(str, w + 2) = "/"
           /\ At(str, a) = "/"
           /\ e > a + 1
        THEN [matched |-> TRUE, scheme |-> SubSeq(str, 1, w - 1),
              path |-> SubSeq(str, a + 1, e - 1)]
        ELSE NoMatch

\* regex_search with url_patternB, ^(\w+):\/([^\/][^#\?]+)
url_patternB(str) ==
    LET w == RunEnd(str, 1, LAMBDA ch : ch \in WordCharacters)
        e == RunEnd(str, w + 3, LAMBDA ch : ch \notin {"#", "?"})
    IN  IF /\ w > 1
           /\ At(str, w) = ":" /\ At(str, w + 1) = "/"
           /\ At(str, w + 2) \notin {"/", "end"}
           /\ e > w + 3
        THEN [matched |-> TRUE, scheme |-> SubSeq(str, 1, w - 1),
              path |-> SubSeq(str, w + 2, e - 1)]
        ELSE NoMatch

\* GetLibraryLocation() and the location the constructor rolls back to,
\* GetLibraryLocation() + "/../../resources/".
GetLibraryLocation == <<"/", "l">>
DefaultLocation ==
    GetLibraryLocation \o <<"/", ".", ".", "/", ".", ".", "/",
                            "r", "e", "s", "o", "u", "r", "c", "e", "s", "/">>

file == <<"f", "i", "l", "e">>

\* The constructor parsing fmuResourceLocation: the sendToLog calls it makes
\* and the value it gives to m_resources_location.
ParseResourceLocation(fmuResourceLocation) ==
    LET A == url_patternA(fmuResourceLocation)
        B == url_patternB(fmuResourceLocation)
        url_matches == IF A.matched THEN A ELSE B
    IN  IF url_matches.matched
        THEN [calls |-> IF url_matches.scheme # file
                        THEN <<LogCall("Bad URL scheme", "fmi2Warning", "logStatusWarning")>>
                        ELSE <<>>,
              m_resources_location |-> url_matches.path \o <<"/">>]
        ELSE [calls |-> <<LogCall("Cannot parse resource location", "fmi2Warning",
                                  "logStatusWarning"),
                          LogCall("Rolled back to default location", "fmi2Warning",
                                  "logStatusWarning")>>,
              m_resources_location |-> DefaultLocation]

-----------------------------------------------------------------------------
(* Initial state: the base-class constructor has run *)

Cells == {"m_time", "q0", "q2", "filename"}
Values == {0, 1}

\* The members of type std::string, and what they hold before the model's
\* constructor body runs.
StringCells == {"filename"}
InitialValue(cell) == IF cell \in StringCells THEN <<>> ELSE 0

PointerTo(cell) == [kind |-> "pointer", cell |-> cell]
GetSetPair(cell) == [kind |-> "getset", cell |-> cell]

\* m_unitDefinitions["1"] and m_unitDefinitions[""]
DefaultUnits == addUnitDefinition(addUnitDefinition(<<>>, UnitDefinition("1")), UnitDefinition(""))

\* AddFmuVariable(&m_time, "time", Real, "s", "time", independent, continuous)
TimeArgs == AddArgs(PointerTo("m_time"), "time", "Real", "s", "time", "independent",
                    "continuous", "none")

Constructed(memory) ==
    AddFmuVariableOn(Registry({}, [t \in Types |-> 0], DefaultUnits, <<>>), TimeArgs, memory).c

\* The arguments of the base-class constructor, and whether the library was
\* built with NDEBUG.
Instantiation(instanceName, fmuGUID, fmuResourceLocation, loggingOn, logCategories_init, logCategories_debug_init, ndebug) ==
    [instanceName |-> instanceName, fmuGUID |-> fmuGUID,
     fmuResourceLocation |-> fmuResourceLocation, loggingOn |-> loggingOn,
     logCategories_init |-> logCategories_init,
     logCategories_debug_init |-> logCategories_debug_init, NDEBUG |-> ndebug]

FMU_GUID == "guid"

\* The sendToLog calls of the constructor, in the order it makes them: for the
\* resource location, for the GUID, for the debug categories that are not
\* log categories.
FmuComponentBaseCalls(a) ==
    ParseResourceLocation(a.fmuResourceLocation).calls
    \o (IF a.fmuGUID # FMU_GUID
        THEN <<LogCall("GUID used for instantiation not matching with source", "fmi2Warning",
                       "logStatusWarning")>>
        ELSE <<>>)
    \o [i \in 1..Cardinality(a.logCategories_debug_init \ DOMAIN a.logCategories_init) |->
           LogCall("Developer error: Log category specified to be of debug is not listed",
                   "fmi2Warning", "logStatusWarning")]

\* What the constructor's sendToLog calls come to.
FmuComponentBaseLog(a) ==
    sendToLogAll(a.logCategories_init, a.loggingOn, a.logCategories_debug_init,
                 a.instanceName, FmuComponentBaseCalls(a), a.NDEBUG)

\* The log categories of the demo FMU and its debug categories.
DemoCategories ==
    [cat \in {"logEvents", "logSingularLinearSystems", "logNonlinearSystems",
              "logStatusWarning", "logStatusError", "logStatusPending",
              "logDynamicStateSelection", "logStatusDiscard", "logStatusFatal", "logAll"}
        |-> TRUE]
DemoDebugCategories ==
    {"logStatusWarning", "logStatusDiscard", "logStatusError", "logStatusFatal",
     "logStatusPending"}

\* file:///r
DemoLocation == <<"f", "i", "l", "e", ":", "/", "/", "/", "r">>

DemoInstantiation ==
    Instantiation("fmu", FMU_GUID, DemoLocation, FALSE, DemoCategories, DemoDebugCategories,
                  TRUE)

\* The state the base-class constructor leaves when it is given a, with
\* existing in the directory the description is later exported to.
InitWith(a, existing) ==
    /\ phase = IF FmuComponentBaseLog(a).aborted THEN "aborted" ELSE "constructing"
    /\ m_fmuType = "unset"
    /\ m_fmuMachineState = "instantiated"
    /\ mem = [c \in Cells |-> InitialValue(c)]
    /\ m_variables = Constructed(mem).variables
    /\ m_valueReferenceCounter = Constructed(mem).counter
    /\ m_unitDefinitions = Constructed(mem).units
    /\ regLog = Constructed(mem).log
    /\ m_derivatives = <<>>
    /\ m_variableDependencies = <<>>
    /\ m_preStepCallbacks = <<>>
    /\ m_postStepCallbacks = <<>>
    /\ m_instanceName = a.instanceName
    /\ m_logCategories_enabled = FmuComponentBaseLog(a).enabled
    /\ m_debug_logging_enabled = a.loggingOn
    /\ m_logCategories_debug = a.logCategories_debug_init
    /\ NDEBUG = a.NDEBUG
    /\ m_resources_location = ParseResourceLocation(a.fmuResourceLocation).m_resources_location
    /\ modelDescription_xml = existing
    /\ last = [NoCall EXCEPT !.op = "FmuComponentBase",
                             !.ret = IF FmuComponentBaseLog(a).aborted THEN "aborted"
                                     ELSE "ok",
                             !.log = FmuComponentBaseLog(a).log,
                             !.uri = a.fmuResourceLocation]

Init == InitWith(DemoInstantiation, <<>>)

-----------------------------------------------------------------------------
(* Construction: the calls a model's constructor makes, inside fmi2Instantiate *)

\* An exception thrown while the model is constructed is either handled by the
\* model's own code (caught) or leaves the constructor; fmi2Instantiate has no
\* handler, so it then leaves fmi2Instantiate as well.
Unwind(threw, caught) == IF threw /\ ~caught THEN "escaped" ELSE phase

AddFmuVariable(a, caught) ==
    LET r == AddFmuVariableOn(Registry(m_variables, m_valueReferenceCounter,
                                       m_unitDefinitions, regLog), a, mem)
    IN  /\ phase = "constructing"
        /\ (IF r.threw THEN TRUE ELSE Len(regLog) <= MaxVars)
        /\ m_variables' = r.c.variables
        /\ m_valueReferenceCounter' = r.c.counter
        /\ m_unitDefinitions' = r.c.units
        /\ regLog' = r.c.log
        /\ phase' = Unwind(r.threw, caught)
        /\ last' = [Call("AddFmuVariable", m_fmuMachineState, "none", "none",
                         IF r.threw THEN Exception ELSE "ok", <<>>)
                    EXCEPT !.name = a.name, !.type = a.scalartype, !.arg = a,
                           !.what = r.what]
        /\ UNCHANGED <<m_fmuType, m_fmuMachineState, structure, callbacks, mem,
                   logging, files>>

RebindVariable(varbind, name) ==
    LET r == RebindVariableOn(m_variables, varbind, name)
    IN  /\ phase = "constructing"
        /\ m_variables' = r.variables
        /\ last' = [Call("RebindVariable", m_fmuMachineState, "none", "none",
                         IF r.ret THEN "true" ELSE "false", <<>>)
                    EXCEPT !.name = name, !.arg = [NoArgs EXCEPT !.varbind = varbind,
                                                                  !.name = name]]
        /\ UNCHANGED <<phase, m_fmuType, m_fmuMachineState, m_valueReferenceCounter,
                       m_unitDefinitions, regLog, structure, callbacks, mem,
                   logging, files>>

\* SetStartVal called on the variable of that name.
SetStartValCall(name, start) ==
    /\ phase = "constructing"
    /\ \E var \in m_variables :
          /\ var.name = name
          /\ m_variables' = (m_variables \ {var}) \cup {SetStartVal(var, start)}
    /\ last' = [Call("SetStartVal", m_fmuMachineState, "none", "none", "ok", <<>>)
                EXCEPT !.name = name]
    /\ UNCHANGED <<phase, m_fmuType, m_fmuMachineState, m_valueReferenceCounter,
                   m_unitDefinitions, regLog, structure, callbacks, mem,
                   logging, files>>

\* is_cosimulation_available() / is_modelexchange_available() of the model.
is_cosimulation_available == FALSE
is_modelexchange_available == TRUE

\* FmuComponentBase::initializeType: whether it accepts the requested type.
initializeTypeAccepts(fmuType) ==
    CASE fmuType = "fmi2CoSimulation"  -> is_cosimulation_available
      [] fmuType = "fmi2ModelExchange" -> is_modelexchange_available
      [] OTHER -> FALSE

initializeType(fmuType, caught) ==
    LET threw == ~initializeTypeAccepts(fmuType)
    IN  /\ phase = "constructing"
        /\ m_fmuType = "unset"
        /\ m_fmuType' = IF threw THEN m_fmuType ELSE fmuType
        /\ phase' = Unwind(threw, caught)
        /\ last' = Call("initializeType", m_fmuMachineState, "none", "none",
                        IF threw THEN Exception ELSE "ok", <<>>)
        /\ UNCHANGED <<m_fmuMachineState, registry, structure, callbacks, mem,
                   logging, files>>

addUnitDefinitionCall(unit_definition) ==
    /\ phase = "constructing"
    /\ m_unitDefinitions' = addUnitDefinition(m_unitDefinitions, unit_definition)
    /\ last' = [Call("addUnitDefinition", m_fmuMachineState, "none", "none", "ok", <<>>)
                EXCEPT !.name = unit_definition.name, !.unit = unit_definition]
    /\ UNCHANGED <<phase, m_fmuType, m_fmuMachineState, m_variables, m_valueReferenceCounter,
                   regLog, structure, callbacks, mem,
                   logging, files>>

DeclareStateDerivative(derivative_name, state_name, dependency_names, caught) ==
    LET r == addDerivative(m_derivatives, m_variables, derivative_name, state_name,
                           dependency_names)
    IN  /\ phase = "constructing"
        /\ m_derivatives' = r.derivatives
        /\ phase' = Unwind(r.threw, caught)
        /\ last' = [Call("DeclareStateDerivative", m_fmuMachineState, "none", "none",
                         IF r.threw THEN Exception ELSE "ok", <<>>)
                    EXCEPT !.name = derivative_name, !.state = state_name,
                           !.deps = dependency_names]
        /\ UNCHANGED <<m_fmuType, m_fmuMachineState, registry, m_variableDependencies,
                       callbacks, mem,
                   logging, files>>

DeclareVariableDependencies(variable_name, dependency_names, caught) ==
    LET r == addDependencies(m_variableDependencies, m_variables, variable_name,
                             dependency_names)
    IN  /\ phase = "constructing"
        /\ (IF r.threw THEN TRUE ELSE Len(r.dependencies[variable_name]) <= MaxDeps)
        /\ m_variableDependencies' = r.dependencies
        /\ phase' = Unwind(r.threw, caught)
        /\ last' = [Call("DeclareVariableDependencies", m_fmuMachineState, "none", "none",
                         IF r.threw THEN Exception ELSE "ok", <<>>)
                    EXCEPT !.name = variable_name, !.deps = dependency_names]
        /\ UNCHANGED <<m_fmuType, m_fmuMachineState, registry, m_derivatives, callbacks, mem,
                   logging, files>>

\* isDerivative asked about a name.
isDerivativeCall(name) ==
    /\ phase \in {"constructing", "live"}
    /\ last' = [Call("isDerivative", m_fmuMachineState, "none", "none",
                     isDerivative(m_derivatives, name), <<>>)
                EXCEPT !.name = name]
    /\ UNCHANGED <<phase, m_fmuType, m_fmuMachineState, registry, structure, callbacks, mem,
                   logging, files>>

\* ExportModelDescription on the constructed component: it ends with the
\* exception of the dependency check or returns.
ExportModelDescription ==
    LET r == ExportModelDescriptionSteps(m_variables, m_derivatives, m_variableDependencies,
                                         modelDescription_xml)
    IN  /\ phase = "live"
        /\ m_variableDependencies' = r.dependencies
        /\ modelDescription_xml' = r.outFile
        /\ last' = [Call("ExportModelDescription", m_fmuMachineState, "none", "none",
                         IF r.threw THEN Exception ELSE "ok", r.trace)
                    EXCEPT !.name = r.name, !.what = r.what]
        /\ UNCHANGED <<phase, m_fmuType, m_fmuMachineState, registry, m_derivatives,
                       callbacks, mem, logging, m_resources_location>>

\* The message createModelDescription leaves in err_msg.
NeitherType == "FMU is not set as either CoSimulation nor ModelExchange."

\* createModelDescription for a library whose model accepts the FMU types of
\* available and whose constructor builds the component given: each of the
\* two fmi2InstantiateIMPL calls is in a try block, the call of
\* ExportModelDescription is in none. ret is what the caller gets, Exception
\* when the exception of the export reaches it.
createModelDescriptionOn(available, variables, derivatives, dependencies, existing) ==
    LET has_cosim == "fmi2CoSimulation" \in available
        has_modex == "fmi2ModelExchange" \in available
        ok == has_cosim \/ has_modex
        export == ExportModelDescriptionSteps(variables, derivatives, dependencies, existing)
    IN  IF ok
        THEN [ret |-> IF export.threw THEN Exception ELSE "true",
              err_msg |-> "", what |-> export.what, outFile |-> export.outFile,
              dependencies |-> export.dependencies, trace |-> export.trace]
        ELSE [ret |-> "false", err_msg |-> NeitherType, what |-> "none",
              outFile |-> existing, dependencies |-> dependencies, trace |-> <<>>]

\* The generator's call of createModelDescription: the component the model's
\* constructor builds is the one the registrations so far have built. The
\* component is deleted when the function returns; when it does not return
\* the exception is in the generator's main, which catches nothing.
createModelDescription(available) ==
    LET r == createModelDescriptionOn(available, m_variables, m_derivatives,
                                      m_variableDependencies, modelDescription_xml)
    IN  /\ phase = "constructing"
        /\ phase' = IF r.ret = Exception THEN "escaped" ELSE "deleted"
        /\ m_variableDependencies' = r.dependencies
        /\ modelDescription_xml' = r.outFile
        /\ last' = [Call("createModelDescription", m_fmuMachineState, "none", "none", r.ret,
                         r.trace)
                    EXCEPT !.what = IF r.ret = "false" THEN r.err_msg ELSE r.what,
                           !.types = SelectSeq(<<"fmi2CoSimulation", "fmi2ModelExchange">>,
                                               LAMBDA t : t \in available)]
        /\ UNCHANGED <<m_fmuType, m_fmuMachineState, registry, m_derivatives, callbacks, mem,
                       logging, m_resources_location>>

-----------------------------------------------------------------------------
(* The generator program, FmuToolsModelDescription.cpp *)

\* Arithmetic on std::size_t is modulo 2^w, w the width of the platform (32
\* or 64). TLC's integers have 32 bits, so the model wraps at 2^30: the
\* difference of two lengths of the model, when negative, wraps to a value
\* above every length of the model, as it does modulo 2^32 and 2^64.
size_t(n) == n % (2 ^ 30)

\* std::string::substr(pos): the characters from position pos (counted from
\* 0) to the end; std::out_of_range when pos > size().
substr(str, pos) ==
    IF pos > Len(str)
    THEN [threw |-> TRUE, str |-> <<>>]
    ELSE [threw |-> FALSE, str |-> SubSeq(str, pos + 1, Len(str))]

suffix == <<".", "f", "m", "u">>

\* The loop that turns every backslash of dynlib_dir into a forward slash.
ForwardSlashes(dynlib_dir) ==
    [i \in 1..Len(dynlib_dir) |-> IF dynlib_dir[i] = "\\" THEN "/" ELSE dynlib_dir[i]]

\* dynlib_dir with a slash appended unless it is empty or ends in one.
WithSlash(dynlib_dir) ==
    IF dynlib_dir # <<>> /\ dynlib_dir[Len(dynlib_dir)] # "/"
    THEN dynlib_dir \o <<"/">>
    ELSE dynlib_dir

\* What main has when it leaves before RuntimeLinkLibrary.
Left(exit, ret, what) ==
    [exit |-> exit, ret |-> ret, what |-> what, handle |-> "none", path |-> <<>>,
     trace |-> <<>>]

\* main as in the source, but with RuntimeLinkLibrary ahead of the check of
\* the suffix.
mainOn_LinksFirst(args, links, create) ==
    LET argc == Len(args) + 1
        dynlib_name == args[2]
        tail == substr(dynlib_name, size_t(Len(dynlib_name) - Len(suffix)))
        dynlib_fullpath == WithSlash(ForwardSlashes(args[1])) \o dynlib_name
        output_path == IF argc = 4 THEN args[3]
                       ELSE dynlib_fullpath \o <<"/", ".", ".", "/", ".", ".", "/">>
    IN  IF argc \notin {3, 4} THEN Left(4, "returned", "none")
        ELSE IF ~links
        THEN [exit |-> 1, ret |-> "returned", what |-> "none", handle |-> "null",
              path |-> output_path, trace |-> <<"RuntimeLinkLibrary">>]
        ELSE IF tail.threw
        THEN [Left(-1, Exception, "out_of_range") EXCEPT !.handle = "handle",
                                                         !.trace = <<"RuntimeLinkLibrary">>]
        ELSE IF tail.str = suffix
        THEN [Left(3, "returned", "none") EXCEPT !.handle = "handle",
                                                 !.trace = <<"RuntimeLinkLibrary">>]
        ELSE [exit |-> IF create.ret = Exception THEN -1
                       ELSE IF create.ret = "false" THEN 2 ELSE 0,
              ret |-> IF create.ret = Exception THEN Exception ELSE "returned",
              what |-> IF create.ret = "false" THEN create.err_msg ELSE create.what,
              handle |-> "handle", path |-> output_path,
              trace |-> <<"RuntimeLinkLibrary", "createModelDescription">>]

\* main(argc, argv) with args the arguments after argv[0], links whether
\* RuntimeLinkLibrary finds and links the library, and create what the
\* library's createModelDescription does when called. exit is the value
\* main returns, -1 with ret = Exception when an exception leaves main (it
\* has no handler: std::terminate ends the program and main returns
\* nothing); trace has the calls into the linking layer and the library.
mainOn(args, links, create) ==
    LET argc == Len(args) + 1
        dynlib_name == args[2]
        tail == substr(dynlib_name, size_t(Len(dynlib_name) - Len(suffix)))
        dynlib_fullpath == WithSlash(ForwardSlashes(args[1])) \o dynlib_name
        output_path == IF argc = 4 THEN args[3]
                       ELSE dynlib_fullpath \o <<"/", ".", ".", "/", ".", ".", "/">>
    IN  IF argc \notin {3, 4} THEN Left(4, "returned", "none")
        ELSE IF tail.threw THEN Left(-1, Exception, "out_of_range")
        ELSE IF tail.str = suffix THEN Left(3, "returned", "none")
        ELSE IF ~links
        THEN [exit |-> 1, ret |-> "returned", what |-> "none", handle |-> "null",
              path |-> output_path, trace |-> <<"RuntimeLinkLibrary">>]
        ELSE [exit |-> IF create.ret = Exception THEN -1
                       ELSE IF create.ret = "false" THEN 2 ELSE 0,
              ret |-> IF create.ret = Exception THEN Exception ELSE "returned",
              what |-> IF create.ret = "false" THEN create.err_msg ELSE create.what,
              handle |-> "handle", path |-> output_path,
              trace |-> <<"RuntimeLinkLibrary", "createModelDescription">>]

\* A run of the generator on a library whose model accepts the FMU types of
\* available and whose constructor builds the component the registrations so
\* far have built. The run ends the process: by a return of main, or by the
\* exception that left it.
main(args, links, available) ==
    LET create == createModelDescriptionOn(available, m_variables, m_derivatives,
                                           m_variableDependencies, modelDescription_xml)
        r == mainOn(args, links, create)
        called == Len(r.trace) = 2
    IN  /\ phase = "constructing"
        /\ phase' = IF r.ret = Exception THEN "escaped" ELSE "deleted"
        /\ m_variableDependencies' = IF called THEN create.dependencies
                                     ELSE m_variableDependencies
        /\ modelDescription_xml' = IF called THEN create.outFile ELSE modelDescription_xml
        /\ last' = [Call("main", m_fmuMachineState, "none", "none", r.ret, r.trace)
                    EXCEPT !.what = r.what, !.argv = args, !.handle = r.handle,
                           !.path = r.path, !.exit = r.exit,
                           !.types = IF called
                                     THEN SelectSeq(<<"fmi2CoSimulation", "fmi2ModelExchange">>,
                                                    LAMBDA t : t \in available)
                                     ELSE <<>>]
        /\ UNCHANGED <<m_fmuType, m_fmuMachineState, registry, m_derivatives, callbacks, mem,
                       logging, m_resources_location>>

\* AddPreStepFunction / AddPostStepFunction: push_back on the callback list.
AddPreStepFunction(f) ==
    /\ phase = "constructing"
    /\ Len(m_preStepCallbacks) < MaxCallbacks
    /\ m_preStepCallbacks' = Append(m_preStepCallbacks, f)
    /\ last' = Call("AddPreStepFunction", m_fmuMachineState, "none", "none", "ok", <<>>)
    /\ UNCHANGED <<phase, m_fmuType, m_fmuMachineState, registry, structure, m_postStepCallbacks, mem,
                   logging, files>>

AddPostStepFunction(f) ==
    /\ phase = "constructing"
    /\ Len(m_postStepCallbacks) < MaxCallbacks
    /\ m_postStepCallbacks' = Append(m_postStepCallbacks, f)
    /\ last' = Call("AddPostStepFunction", m_fmuMachineState, "none", "none", "ok", <<>>)
    /\ UNCHANGED <<phase, m_fmuType, m_fmuMachineState, registry, structure, m_preStepCallbacks, mem,
                   logging, files>>

\* fmi2Instantiate returns: the constructor finished and the host gets the handle.
fmi2Instantiate ==
    /\ phase = "constructing"
    /\ phase' = "live"
    /\ last' = Call("fmi2Instantiate", m_fmuMachineState, "none", "none", "handle", <<>>)
    /\ UNCHANGED <<m_fmuType, m_fmuMachineState, registry, structure, callbacks, mem,
                   logging, files>>

-----------------------------------------------------------------------------
(* Entry points the host calls on the instance *)

EnterInitializationMode(status) ==
    LET r == EnterInitializationModeOn(m_fmuMachineState, status)
    IN  /\ m_fmuMachineState' = r.state
        /\ last' = Call("EnterInitializationMode", m_fmuMachineState, status, r.saw, r.ret, <<>>)
        /\ UNCHANGED <<phase, m_fmuType, registry, structure, callbacks, mem,
                   logging, files>>

ExitInitializationMode(status) ==
    LET r == ExitInitializationModeOn(m_fmuMachineState, status)
    IN  /\ m_fmuMachineState' = r.state
        /\ last' = Call("ExitInitializationMode", m_fmuMachineState, status, r.saw, r.ret, <<>>)
        /\ UNCHANGED <<phase, m_fmuType, registry, structure, callbacks, mem,
                   logging, files>>

DoStep(status) ==
    LET r == DoStepOn(m_fmuMachineState, status)
        trace == StepCalls(m_preStepCallbacks, "doStepIMPL", m_postStepCallbacks, status)
    IN  /\ m_fmuMachineState' = r.state
        /\ last' = Call("DoStep", m_fmuMachineState, status, r.saw, r.ret, trace)
        /\ UNCHANGED <<phase, m_fmuType, registry, structure, callbacks, mem,
                   logging, files>>

\* A delegating method that reports a warning of its hook as fmi2OK.
ReturnStatus_WarningAsOK(status) == IF status = "fmi2Warning" THEN "fmi2OK" ELSE status

\* NewDiscreteStates .. GetDerivatives: `return status;` with the status of
\* the hook.
ReturnStatus(status) == status

NewDiscreteStates(status) ==
    /\ last' = Call("NewDiscreteStates", m_fmuMachineState, status, m_fmuMachineState,
                    ReturnStatus(status), <<"newDiscreteStatesIMPL">>)
    /\ UNCHANGED <<phase, m_fmuType, m_fmuMachineState, registry, structure, callbacks, mem,
                   logging, files>>

CompletedIntegratorStep(status) ==
    /\ last' = Call("CompletedIntegratorStep", m_fmuMachineState, status, m_fmuMachineState,
                    ReturnStatus(status), <<"completedIntegratorStepIMPL">>)
    /\ UNCHANGED <<phase, m_fmuType, m_fmuMachineState, registry, structure, callbacks, mem,
                   logging, files>>

\* SetTime stores the time in m_time before it calls the hook.
SetTime(time, status) ==
    /\ mem' = [mem EXCEPT !["m_time"] = time]
    /\ last' = [Call("SetTime", m_fmuMachineState, status, m_fmuMachineState,
                     ReturnStatus(status), <<"setTimeIMPL">>)
                EXCEPT !.value = time]
    /\ UNCHANGED <<phase, m_fmuType, m_fmuMachineState, registry, structure, callbacks,
                   logging, files>>

\* The hook of the demo copies its state q into x.
GetContinuousStates(status) ==
    /\ last' = [Call("GetContinuousStates", m_fmuMachineState, status, m_fmuMachineState,
                     ReturnStatus(status), <<"getContinuousStatesIMPL">>)
                EXCEPT !.value = mem["q0"]]
    /\ UNCHANGED <<phase, m_fmuType, m_fmuMachineState, registry, structure, callbacks, mem,
                   logging, files>>

\* The hook of the demo copies x into its state q.
SetContinuousStates(x, status) ==
    /\ mem' = [mem EXCEPT !["q0"] = x]
    /\ last' = [Call("SetContinuousStates", m_fmuMachineState, status, m_fmuMachineState,
                     ReturnStatus(status), <<"setContinuousStatesIMPL">>)
                EXCEPT !.value = x]
    /\ UNCHANGED <<phase, m_fmuType, m_fmuMachineState, registry, structure, callbacks,
                   logging, files>>

GetDerivatives(status) ==
    LET trace == StepCalls(m_preStepCallbacks, "getDerivativesIMPL", m_postStepCallbacks,
                           status)
    IN  /\ last' = Call("GetDerivatives", m_fmuMachineState, status, m_fmuMachineState,
                        ReturnStatus(status), trace)
        /\ UNCHANGED <<phase, m_fmuType, m_fmuMachineState, registry, structure, callbacks, mem,
                   logging, files>>

fmi2EnterInitializationMode ==
    /\ phase = "live"
    /\ \E status \in enterInitializationModeIMPL : EnterInitializationMode(status)

fmi2ExitInitializationMode ==
    /\ phase = "live"
    /\ \E status \in exitInitializationModeIMPL : ExitInitializationMode(status)

fmi2DoStep ==
    /\ phase = "live"
    /\ \E status \in doStepIMPL : DoStep(status)

fmi2GetDerivatives ==
    /\ phase = "live"
    /\ \E status \in getDerivativesIMPL : GetDerivatives(status)

fmi2NewDiscreteStates ==
    /\ phase = "live"
    /\ \E status \in newDiscreteStatesIMPL : NewDiscreteStates(status)

fmi2CompletedIntegratorStep ==
    /\ phase = "live"
    /\ \E status \in completedIntegratorStepIMPL : CompletedIntegratorStep(status)

fmi2SetTime(time) ==
    /\ phase = "live"
    /\ \E status \in setTimeIMPL : SetTime(time, status)

fmi2GetContinuousStates ==
    /\ phase = "live"
    /\ \E status \in getContinuousStatesIMPL : GetContinuousStates(status)

fmi2SetContinuousStates(x) ==
    /\ phase = "live"
    /\ \E status \in setContinuousStatesIMPL : SetContinuousStates(x, status)

\* Entry points whose body is `return fmi2Status::fmi2OK;`.
InertEntryPoints ==
    {"fmi2Terminate", "fmi2Reset", "fmi2GetFMUstate", "fmi2SetFMUstate", "fmi2FreeFMUstate",
     "fmi2SerializedFMUstateSize", "fmi2SerializeFMUstate", "fmi2DeSerializeFMUstate",
     "fmi2GetDirectionalDerivative", "fmi2EnterEventMode", "fmi2EnterContinuousTimeMode",
     "fmi2GetEventIndicators", "fmi2GetNominalsOfContinuousStates",
     "fmi2SetRealInputDerivatives", "fmi2GetRealOutputDerivatives", "fmi2CancelStep",
     "fmi2GetStatus", "fmi2GetRealStatus", "fmi2GetIntegerStatus", "fmi2GetBooleanStatus",
     "fmi2GetStringStatus"}

\* The inert entry points with an fmi2Reset that takes the instance back to
\* instantiated.
fmi2Inert_ResetReinstantiates(entry) ==
    /\ phase = "live"
    /\ m_fmuMachineState' = IF entry = "fmi2Reset" THEN "instantiated" ELSE m_fmuMachineState
    /\ last' = Call(entry, m_fmuMachineState, "none", "none", "fmi2OK", <<>>)
    /\ UNCHANGED <<phase, m_fmuType, registry, structure, callbacks, mem, logging, files>>

fmi2Inert(entry) ==
    /\ phase = "live"
    /\ last' = Call(entry, m_fmuMachineState, "none", "none", "fmi2OK", <<>>)
    /\ UNCHANGED <<phase, m_fmuType, m_fmuMachineState, registry, structure, callbacks, mem,
                   logging, files>>

\* fmi2GetReal .. fmi2GetString: one value reference looked up by (vr, type).
fmi2GetVariable(vr, vartype) ==
    LET it == findByValrefType(m_variables, vr, vartype)
        found == it # End(m_variables)
    IN  /\ phase = "live"
        /\ last' = [Call("fmi2GetVariable", m_fmuMachineState, "none", "none",
                         IF found THEN "fmi2OK" ELSE "fmi2Error", <<>>)
                    EXCEPT !.vr = vr, !.type = vartype,
                           !.name = IF found THEN Iterate(m_variables)[it].name ELSE "none",
                           !.value = IF found THEN GetValue(Iterate(m_variables)[it], mem)
                                     ELSE 0]
        /\ UNCHANGED <<phase, m_fmuType, m_fmuMachineState, registry, structure, callbacks, mem,
                   logging, files>>

\* fmi2SetReal .. fmi2SetString: one value reference looked up by (vr, type) and
\* the value handed to the variable's SetValue.
fmi2SetVariable(vr, vartype, value) ==
    LET it == findByValrefType(m_variables, vr, vartype)
        found == it # End(m_variables)
    IN  /\ phase = "live"
        /\ mem' = IF found THEN SetValue(Iterate(m_variables)[it], value, mem) ELSE mem
        /\ last' = [Call("fmi2SetVariable", m_fmuMachineState, "none", "none",
                         IF found THEN "fmi2OK" ELSE "fmi2Error", <<>>)
                    EXCEPT !.vr = vr, !.type = vartype,
                           !.name = IF found THEN Iterate(m_variables)[it].name ELSE "none",
                           !.value = value]
        /\ UNCHANGED <<phase, m_fmuType, m_fmuMachineState, registry, structure, callbacks,
                   logging, files>>

\* The model's own code assigns one of its members.
AssignMember(cell, value) ==
    /\ phase \in {"constructing", "live"}
    /\ mem' = [mem EXCEPT ![cell] = value]
    /\ last' = [Call("AssignMember", m_fmuMachineState, "none", "none", "ok", <<>>)
                EXCEPT !.name = cell]
    /\ UNCHANGED <<phase, m_fmuType, m_fmuMachineState, registry, structure, callbacks,
                   logging, files>>


\* sendToLog called by the model's code. hook holds the status and what the
\* message it was given.
sendToLog(msg, status, msg_cat) ==
    LET r == sendToLogOn(m_logCategories_enabled, m_debug_logging_enabled,
                         m_logCategories_debug, m_instanceName, msg, status, msg_cat, NDEBUG)
    IN  /\ phase \in {"constructing", "live"}
        /\ phase' = IF r.aborted THEN "aborted" ELSE phase
        /\ m_logCategories_enabled' = r.enabled
        /\ last' = [Call("sendToLog", m_fmuMachineState, status, "none",
                         IF r.aborted THEN "aborted" ELSE "ok", <<>>)
                    EXCEPT !.name = msg_cat, !.what = msg, !.log = r.log]
        /\ UNCHANGED <<m_fmuType, m_fmuMachineState, registry, structure, callbacks, mem,
                       m_instanceName, m_debug_logging_enabled, m_logCategories_debug,
                       NDEBUG, files>>

\* fmi2SetDebugLogging(c, loggingOn, nCategories, categories). what holds
\* loggingOn and deps the categories.
fmi2SetDebugLogging(loggingOn, categories) ==
    /\ phase = "live"
    /\ m_logCategories_enabled' =
           fmi2SetDebugLoggingOn(m_logCategories_enabled, loggingOn, categories)
    /\ last' = [Call("fmi2SetDebugLogging", m_fmuMachineState, "none", "none", "fmi2OK", <<>>)
                EXCEPT !.what = IF loggingOn THEN "fmi2True" ELSE "fmi2False",
                       !.deps = categories]
    /\ UNCHANGED <<phase, m_fmuType, m_fmuMachineState, registry, structure, callbacks, mem,
                   m_instanceName, m_debug_logging_enabled, m_logCategories_debug,
                   NDEBUG, files>>


-----------------------------------------------------------------------------
(* Specifications *)

FmuTypes == {"fmi2CoSimulation", "fmi2ModelExchange"}
CallbackIds == {"A", "B"}
NameRange == {NameOrder[i] : i \in 1..Len(NameOrder)}
LookupTypes == {"Real", "Integer", "Boolean"}
ValueReferences == 0..(MaxVars + 1)

\* Registrations tried in the lifecycle specification: a fresh name, the name
\* of the time variable, a common unit and an unknown unit.
LifecycleAdds ==
    {AddArgs(PointerTo("q0"), name, "Real", unitname, "", "local", "continuous", "none") :
        name \in {"x", "time"}, unitname \in {"m", "furlong"}}

\* Registrations tried in the registry specification.
RegistryAdds ==
    {AddArgs(PointerTo(cell), name, scalartype, "1", "", "local", "continuous", "none") :
        cell \in {"q0"}, name \in NameRange, scalartype \in {"Real", "Integer"}}

Construct ==
    \/ \E a \in LifecycleAdds, caught \in BOOLEAN : AddFmuVariable(a, caught)
    \/ \E fmuType \in FmuTypes, caught \in BOOLEAN : initializeType(fmuType, caught)
    \/ addUnitDefinitionCall([name |-> "J", exp |-> <<1, 2, -2, 0, 0, 0, 0, 0>>])
    \/ \E derivative_name \in {"x", "v"}, caught \in BOOLEAN :
           DeclareStateDerivative(derivative_name, "time", <<"x">>, caught)
    \/ \E dependency_name \in {"time", "v"}, caught \in BOOLEAN :
           DeclareVariableDependencies("x", <<dependency_name>>, caught)
    \/ fmi2Instantiate

\* The lifecycle of an instance: construction, then the host's calls.
Next ==
    \/ Construct
    \/ fmi2EnterInitializationMode
    \/ fmi2ExitInitializationMode
    \/ fmi2DoStep
    \/ \E entry \in InertEntryPoints : fmi2Inert(entry)
    \/ \E vr \in 1..2 : fmi2GetVariable(vr, "Real")

Spec == Init /\ [][Next]_vars

\* Callback registration and the two entry points that run the callbacks.
NextCallbacks ==
    \/ \E f \in CallbackIds : AddPreStepFunction(f)
    \/ \E f \in CallbackIds : AddPostStepFunction(f)
    \/ fmi2Instantiate
    \/ fmi2DoStep
    \/ fmi2GetDerivatives

SpecCallbacks == Init /\ [][NextCallbacks]_vars

\* The variable registry and the lookups by value reference.
NextRegistry ==
    \/ \E a \in RegistryAdds : AddFmuVariable(a, TRUE)
    \/ \E name \in {"der(x)", "v", "x"} : RebindVariable(PointerTo("q2"), name)
    \/ fmi2Instantiate
    \/ \E vr \in ValueReferences, vartype \in LookupTypes : fmi2GetVariable(vr, vartype)

SpecRegistry == Init /\ [][NextRegistry]_vars

\* What a registration attempt asks for besides the name: a plain Real without
\* unit, an Integer parameter in a common unit, a Real input in another common
\* unit, and a Real output in a unit nobody knows.
RegistrationProfiles ==
    { [scalartype |-> "Real", unitname |-> "1", causality |-> "local",
       variability |-> "continuous", initial |-> "none", cell |-> "q0"],
      [scalartype |-> "Integer", unitname |-> "m", causality |-> "parameter",
       variability |-> "fixed", initial |-> "exact", cell |-> "q2"],
      [scalartype |-> "Real", unitname |-> "rad", causality |-> "input",
       variability |-> "continuous", initial |-> "none", cell |-> "q2"],
      [scalartype |-> "Real", unitname |-> "furlong", causality |-> "output",
       variability |-> "continuous", initial |-> "calculated", cell |-> "q0"] }

RegistrationAdds ==
    {AddArgs(PointerTo(p.cell), name, p.scalartype, p.unitname, "", p.causality,
             p.variability, p.initial) :
        name \in {"time", "v", "x"}, p \in RegistrationProfiles}

\* Registration as a model's constructor does it: the author's own definition
\* of a unit (here a unit "m" that is not the common metre), and variables.
NextRegistration ==
    \/ \E a \in RegistrationAdds : AddFmuVariable(a, TRUE)
    \/ addUnitDefinitionCall(UnitDefinition("m"))
    \/ fmi2Instantiate

SpecRegistration == Init /\ [][NextRegistration]_vars

\* Registrations that succeed and fail, and rebinds of registered and of
\* unregistered names.
NextReferences ==
    \/ \E a \in RegistrationAdds : AddFmuVariable(a, TRUE)
    \/ \E name \in {"time", "v", "x"} : RebindVariable(PointerTo("q2"), name)
    \/ fmi2Instantiate

SpecReferences == Init /\ [][NextReferences]_vars

\* Unit definitions a model may register: its own "m" without exponents, the
\* metre, "m" as a unit of time, and a definition for the default unit "1".
RegisteredUnits ==
    {UnitDefinition("m"),
     [name |-> "m", exp |-> <<0, 1, 0, 0, 0, 0, 0, 0>>],
     [name |-> "m", exp |-> <<0, 0, 1, 0, 0, 0, 0, 0>>],
     [name |-> "1", exp |-> <<0, 0, 0, 0, 0, 0, 0, 1>>]}

\* Units registered by the model and by the variables that name them.
NextUnits ==
    \/ \E a \in RegistrationAdds : AddFmuVariable(a, TRUE)
    \/ \E unit_definition \in RegisteredUnits : addUnitDefinitionCall(unit_definition)
    \/ fmi2Instantiate

SpecUnits == Init /\ [][NextUnits]_vars

CausalityType == {"parameter", "calculatedParameter", "input", "output", "local",
                  "independent"}
VariabilityType == {"constant", "fixed", "tunable", "discrete", "continuous"}
InitialType == {"none", "exact", "approx", "calculated"}

\* A variable "x" of every causality and initial, constant in time or not.
FlagAdds ==
    {AddArgs(PointerTo("q0"), "x", "Real", "1", "", causality, variability, initial) :
        causality \in CausalityType, variability \in {"fixed", "continuous"},
        initial \in InitialType}

\* One registration with any attributes, then start values set on it and on time.
NextFlags ==
    \/ \E a \in FlagAdds : AddFmuVariable(a, TRUE)
    \/ \E name \in {"time", "x"}, start \in Values : SetStartValCall(name, start)

SpecFlags == Init /\ [][NextFlags]_vars

\* What the model's code stores in a std::string member, and the buffers a host
\* hands to fmi2SetString.
StringValues == {<<>>, <<"b">>}
HostStrings == {c_str(<<>>), c_str(<<"a">>)}

\* The variable "x" as a Real input (start required) on a member, an Integer
\* local on a member, a String parameter on a member, or a Real output with
\* initial exact (start required) on an accessor pair.
BindingAdds ==
    { AddArgs(PointerTo("q0"), "x", "Real", "1", "", "input", "continuous", "none"),
      AddArgs(PointerTo("q2"), "x", "Integer", "1", "", "local", "discrete", "none"),
      AddArgs(PointerTo("filename"), "x", "String", "1", "", "parameter", "fixed", "none"),
      AddArgs(GetSetPair("q2"), "x", "Real", "1", "", "output", "continuous", "exact") }

\* A binding is given to a variable of the type it is a binding for.
Fits(name, cell) ==
    \A v \in m_variables : v.name = name => ((v.type = "String") <=> (cell \in StringCells))

\* Values behind bindings: the model assigns its members, registers and rebinds
\* while it is constructed; the host then sets and gets by value reference.
NextBinding ==
    \/ \E cell \in {"q0", "q2"}, value \in Values : AssignMember(cell, value)
    \/ \E value \in StringValues : AssignMember("filename", value)
    \/ \E a \in BindingAdds : AddFmuVariable(a, TRUE)
    \/ \E name \in {"x", "v"}, cell \in {"q0", "q2", "filename"} :
           Fits(name, cell) /\ RebindVariable(PointerTo(cell), name)
    \/ fmi2Instantiate
    \/ \E vr \in 1..2, vartype \in Types \ {"String"}, value \in Values :
           fmi2SetVariable(vr, vartype, value)
    \/ \E vr \in 1..2, value \in HostStrings : fmi2SetVariable(vr, "String", value)
    \/ \E vr \in 1..2, vartype \in Types : fmi2GetVariable(vr, vartype)

SpecBinding == Init /\ [][NextBinding]_vars

\* A name that is never registered.
Unregistered == "theta"

\* The variables of the structure specifications: a state and its derivative,
\* an output computed from others, a parameter computed from others.
StructureArgs(name) ==
    CASE name = "der(x)" ->
           AddArgs(PointerTo("q2"), name, "Real", "1", "", "local", "continuous", "none")
      [] name = "x" ->
           AddArgs(PointerTo("q0"), name, "Real", "1", "", "output", "continuous", "calculated")
      [] name = "v" ->
           AddArgs(PointerTo("q2"), name, "Real", "1", "", "calculatedParameter", "fixed",
                   "calculated")

\* Derivative declarations: for a registered or an unregistered derivative, of
\* a registered or an unregistered state, with dependency names nobody checks.
NextDerivatives ==
    \/ \E name \in {"der(x)", "x"} : AddFmuVariable(StructureArgs(name), TRUE)
    \/ \E derivative_name \in {"der(x)", Unregistered},
          state_name \in {"x", "time", Unregistered},
          dependency_names \in {<<>>, <<Unregistered>>} :
           DeclareStateDerivative(derivative_name, state_name, dependency_names, TRUE)
    \/ \E name \in {"der(x)", "x", Unregistered} : isDerivativeCall(name)
    \/ fmi2Instantiate

SpecDerivatives == Init /\ [][NextDerivatives]_vars

\* Declarations repeated for the same name: two derivatives, each declared
\* with either state and with or without a dependency, and the dependencies
\* of an output declared in several calls.
NextStructure ==
    \/ \E name \in {"der(x)", "x"} : AddFmuVariable(StructureArgs(name), TRUE)
    \/ \E derivative_name \in {"der(x)", "x"}, state_name \in {"x", "time"},
          dependency_names \in {<<>>, <<"x">>} :
           DeclareStateDerivative(derivative_name, state_name, dependency_names, TRUE)
    \/ \E dependency_names \in {<<"time">>, <<"x">>} :
           DeclareVariableDependencies("x", dependency_names, TRUE)
    \/ fmi2Instantiate

SpecStructure == Init /\ [][NextStructure]_vars

\* Dependency declarations, then the export of the constructed component.
NextDependencies ==
    \/ \E name \in {"x", "v"} : AddFmuVariable(StructureArgs(name), TRUE)
    \/ \E variable_name \in {"x", "v", Unregistered},
          dependency_names \in {<<>>, <<"time">>, <<"x">>, <<"time", Unregistered>>} :
           DeclareVariableDependencies(variable_name, dependency_names, TRUE)
    \/ fmi2Instantiate
    \/ ExportModelDescription

SpecDependencies == Init /\ [][NextDependencies]_vars

\* A description left in the output directory by an earlier run of the tool.
OldDocument == [ModelVariables |-> <<>>, Outputs |-> <<>>, Derivatives |-> {},
                InitialUnknowns |-> {}]

\* The export of a component with a state, its derivative and a calculated
\* parameter, into a directory that has a description or has none.
InitExport == \E existing \in {<<>>, <<OldDocument>>} : InitWith(DemoInstantiation, existing)

NextExport ==
    \/ \E name \in {"der(x)", "x", "v"} : AddFmuVariable(StructureArgs(name), TRUE)
    \/ \E state_name \in {"x", "time"},
          dependency_names \in {<<>>, <<"x", "time">>, <<Unregistered, "x">>} :
           DeclareStateDerivative("der(x)", state_name, dependency_names, TRUE)
    \/ \E variable_name \in {"x", "v"} :
           DeclareVariableDependencies(variable_name, <<"time">>, TRUE)
    \/ fmi2Instantiate
    \/ ExportModelDescription

SpecExport == InitExport /\ [][NextExport]_vars

\* The generator: a library whose model registers an output and a calculated
\* parameter, declares dependencies for some of them, and offers any of the
\* two FMU types.
NextGenerator ==
    \/ \E name \in {"x", "v"} : AddFmuVariable(StructureArgs(name), TRUE)
    \/ \E variable_name \in {"x", "v"}, dependency_names \in {<<"time">>, <<"x", "time">>} :
           DeclareVariableDependencies(variable_name, dependency_names, TRUE)
    \/ \E available \in SUBSET {"fmi2CoSimulation", "fmi2ModelExchange"} :
           createModelDescription(available)

SpecGenerator == InitExport /\ [][NextGenerator]_vars

\* Log categories a model may pass to the base class, and their debug sets.
LogCategoryMaps ==
    {[cat \in {"logAll"} |-> TRUE],
     [cat \in {"logAll", "logStatusWarning"} |-> cat = "logAll"],
     [cat \in {"logAll", "logStatusWarning"} |-> FALSE]}
LogCategoryDebugSets == {{}, {"logStatusWarning"}}
MessageCategories == {"logAll", "logStatusWarning", "logEvents"}

\* Logging: the component is built with and without NDEBUG, with logging on
\* and off, then the model logs and the host switches categories.
InitLogging ==
    \E loggingOn \in BOOLEAN, logCategories_init \in LogCategoryMaps,
       logCategories_debug_init \in LogCategoryDebugSets, ndebug \in BOOLEAN :
        InitWith(Instantiation("fmu", FMU_GUID, DemoLocation, loggingOn, logCategories_init,
                               logCategories_debug_init, ndebug), <<>>)

NextLogging ==
    \/ \E status \in {"fmi2OK", "fmi2Warning"}, msg_cat \in MessageCategories :
           sendToLog("message", status, msg_cat)
    \/ fmi2Instantiate
    \/ \E loggingOn \in BOOLEAN,
          categories \in {<<>>, <<"logAll">>, <<"logEvents">>, <<"logStatusWarning", "logAll">>} :
           fmi2SetDebugLogging(loggingOn, categories)

SpecLogging == InitLogging /\ [][NextLogging]_vars

\* Resource locations a host may pass: file:///r, file://h/r/d, file:/r/d,
\* file:/r, http://h/r, r/d, file:///r?d and the empty string.
FileLocation == DemoLocation
FileAuthorityLocation == <<"f", "i", "l", "e", ":", "/", "/", "h", "/", "r", "/", "d">>
FileShortLocation == <<"f", "i", "l", "e", ":", "/", "r", "/", "d">>
FileOneLetterLocation == <<"f", "i", "l", "e", ":", "/", "r">>
HttpLocation == <<"h", "t", "t", "p", ":", "/", "/", "h", "/", "r">>
RelativeLocation == <<"r", "/", "d">>
FileQueryLocation == <<"f", "i", "l", "e", ":", "/", "/", "/", "r", "?", "d">>
ResourceLocations ==
    {FileLocation, FileAuthorityLocation, FileShortLocation, FileOneLetterLocation,
     HttpLocation, RelativeLocation, FileQueryLocation, <<>>}

\* Construction with each of the resource locations, by a library built with
\* and without NDEBUG, for a model that lists logStatusWarning or does not;
\* the GUID matches and every debug category is listed, so that the only
\* warnings are those for the resource location.
InitResources ==
    \E fmuResourceLocation \in ResourceLocations, logCategories_init \in LogCategoryMaps,
       loggingOn \in BOOLEAN, ndebug \in BOOLEAN :
        InitWith(Instantiation("fmu", FMU_GUID, fmuResourceLocation, loggingOn,
                               logCategories_init, {}, ndebug), <<>>)

NextResources ==
    \/ \E a \in LifecycleAdds : AddFmuVariable(a, TRUE)
    \/ fmi2Instantiate
    \/ \E msg_cat \in {"logAll", "logStatusWarning"} : sendToLog("message", "fmi2OK", msg_cat)

SpecResources == InitResources /\ [][NextResources]_vars

\* A model-exchange or co-simulation run: the model registers its state and a
\* callback, then the host drives the instance and the model logs.
NextRunTime ==
    \/ AddFmuVariable(AddArgs(PointerTo("q0"), "x", "Real", "1", "", "local", "continuous",
                              "none"), TRUE)
    \/ AddPostStepFunction("A")
    \/ fmi2Instantiate
    \/ fmi2EnterInitializationMode
    \/ fmi2ExitInitializationMode
    \/ fmi2DoStep
    \/ fmi2NewDiscreteStates
    \/ fmi2CompletedIntegratorStep
    \/ \E time \in Values : fmi2SetTime(time)
    \/ fmi2GetContinuousStates
    \/ \E x \in Values : fmi2SetContinuousStates(x)
    \/ fmi2GetDerivatives
    \/ \E vr \in 1..2 : fmi2GetVariable(vr, "Real")
    \/ \E vr \in 1..2, value \in Values : fmi2SetVariable(vr, "Real", value)
    \/ \E msg_cat \in {"logAll", "logUser"} : sendToLog("message", "fmi2OK", msg_cat)

SpecRunTime == Init /\ [][NextRunTime]_vars

\* The generator's arguments: a binaries directory, a library name (empty,
\* shorter than ".fmu", ".fmu" itself, a packaged archive, a library), and
\* an output directory.
BinariesDirs == {<<>>, <<"b">>, <<"b", "\\">>}
LibraryNames == {<<>>, <<"a">>, <<"l", "i", "b">>, suffix, <<"a">> \o suffix,
                 <<"m", "o", "d", "e", "l">>}
OutputDirs == {<<"o">>}
Arguments ==
    {<<>>} \cup {<<d>> : d \in BinariesDirs}
           \cup {<<d, n>> : d \in BinariesDirs, n \in LibraryNames}
           \cup {<<d, n, o>> : d \in BinariesDirs, n \in LibraryNames, o \in OutputDirs}
           \cup {<<d, n, o, o>> : d \in BinariesDirs, n \in LibraryNames, o \in OutputDirs}

\* The generator program run on a library whose model registers an output
\* and a calculated parameter and declares dependencies for some of them.
NextMain ==
    \/ \E name \in {"x", "v"} : AddFmuVariable(StructureArgs(name), TRUE)
    \/ \E variable_name \in {"x", "v"} :
           DeclareVariableDependencies(variable_name, <<"time">>, TRUE)
    \/ \E args \in Arguments, links \in BOOLEAN,
          available \in SUBSET {"fmi2CoSimulation", "fmi2ModelExchange"} :
           main(args, links, available)

SpecMain == InitExport /\ [][NextMain]_vars


-----------------------------------------------------------------------------
(* Claims about the lifecycle, checked under Spec *)

\* C1: in whatever machine state DoStep is called, when the stepping hook
\* returns one of the six known statuses DoStep returns that status and leaves
\* the machine state stepCompleted (OK, Warning), stepFailed (Discard), error
\* (Error), fatal (Fatal) or stepInProgress (Pending).
C1_DoStepStatusToState ==
    (last.op = "DoStep" /\ last.hook \in KnownStatus) =>
        /\ last.ret = last.hook
        /\ last.hook \in {"fmi2OK", "fmi2Warning"} => m_fmuMachineState = "stepCompleted"
        /\ last.hook = "fmi2Discard" => m_fmuMachineState = "stepFailed"
        /\ last.hook = "fmi2Error" => m_fmuMachineState = "error"
        /\ last.hook = "fmi2Fatal" => m_fmuMachineState = "fatal"
        /\ last.hook = "fmi2Pending" => m_fmuMachineState = "stepInProgress"

C1_Witness ==
    /\ last.op = "DoStep"
    /\ last.pre = "fatal"
    /\ last.hook = "fmi2Warning"
    /\ last.ret = "fmi2Warning"
    /\ m_fmuMachineState = "stepCompleted"

\* C2: error and fatal are terminal: no step taken in machine state error or
\* fatal changes the machine state.
C2_ErrorFatalTerminal ==
    [][(m_fmuMachineState \in {"error", "fatal"}) => UNCHANGED m_fmuMachineState]_vars

\* The edges of the lifecycle table.
LifecycleTable ==
    {<<"instantiated", "initializationMode">>, <<"initializationMode", "stepCompleted">>,
     <<"stepCompleted", "stepCompleted">>, <<"stepCompleted", "stepFailed">>,
     <<"stepCompleted", "error">>, <<"stepCompleted", "fatal">>,
     <<"stepCompleted", "stepInProgress">>, <<"stepInProgress", "stepCompleted">>}

\* C3: the machine state changes only along the edges of the lifecycle table.
C3_OnlyTableEdges ==
    [][m_fmuMachineState' # m_fmuMachineState =>
          <<m_fmuMachineState, m_fmuMachineState'>> \in LifecycleTable]_vars

\* C4: ExitInitializationMode calls the hook in the state it was called in, and
\* for every status the hook returns it leaves the machine state stepCompleted
\* and returns that status.
C4_ExitInitializationMode ==
    (last.op = "ExitInitializationMode" /\ last.hook \in HookStatus) =>
        /\ last.saw = last.pre
        /\ m_fmuMachineState = "stepCompleted"
        /\ last.ret = last.hook

C4_Witness ==
    /\ last.op = "ExitInitializationMode"
    /\ last.pre = "initializationMode"
    /\ last.hook = "fmi2Fatal"
    /\ last.ret = "fmi2Fatal"
    /\ m_fmuMachineState = "stepCompleted"

\* C5: while the model is constructed, and when fmi2Instantiate hands it over,
\* the machine state is instantiated; EnterInitializationMode runs its hook in
\* state initializationMode, leaves that state and returns the hook's status.
C5_InstantiatedThenInitializationMode ==
    /\ phase = "constructing" => m_fmuMachineState = "instantiated"
    /\ last.op = "fmi2Instantiate" => m_fmuMachineState = "instantiated"
    /\ last.op = "EnterInitializationMode" =>
          /\ last.saw = "initializationMode"
          /\ m_fmuMachineState = "initializationMode"
          /\ last.ret = last.hook

C5_Witness ==
    /\ last.op = "EnterInitializationMode"
    /\ last.pre = "instantiated"
    /\ last.hook = "fmi2Error"
    /\ m_fmuMachineState = "initializationMode"
    /\ \E v \in m_variables : v.name = "x"
    /\ "x" \in DOMAIN m_derivatives
    /\ "x" \in DOMAIN m_variableDependencies
    /\ "J" \in DOMAIN m_unitDefinitions

\* C6: when the stepping hook returns a status that is none of the six, DoStep
\* throws instead of returning, and the machine state is the one before the call.
C6_UnknownStatusThrows ==
    (last.op = "DoStep" /\ last.hook \notin KnownStatus) =>
        /\ last.ret = Exception
        /\ m_fmuMachineState = last.pre

C6_Witness ==
    /\ last.op = "DoStep"
    /\ last.hook = OtherStatus
    /\ last.pre = "stepCompleted"
    /\ last.ret = Exception
    /\ m_fmuMachineState = "stepCompleted"

\* C7: no failure leaves an entry point: a failing construction does not leave
\* fmi2Instantiate as an exception, and fmi2DoStep, fmi2EnterInitializationMode
\* and fmi2ExitInitializationMode do not end by throwing.
C7_NoFailureEscapes ==
    /\ phase # "escaped"
    /\ last.op \in {"DoStep", "EnterInitializationMode", "ExitInitializationMode"} =>
          last.ret # Exception


-----------------------------------------------------------------------------
(* Claims about the callbacks, checked under SpecCallbacks *)

StepOps == {"DoStep", "GetDerivatives"}

HookOf(op) == IF op = "DoStep" THEN "doStepIMPL" ELSE "getDerivativesIMPL"

\* C8: a callback list only grows at its end, so it holds the callbacks in
\* registration order; every DoStep and GetDerivatives call runs the pre-step
\* callbacks in that order, then its hook once, then the post-step callbacks in
\* that order, and leaves both lists as they were.
C8_CallbacksInOrder ==
    /\ [](last.op \in StepOps =>
             last.trace = m_preStepCallbacks \o <<HookOf(last.op)>> \o m_postStepCallbacks)
    /\ [][(last'.op \in StepOps) => UNCHANGED callbacks]_vars
    /\ [][(m_preStepCallbacks' # m_preStepCallbacks) =>
             (\E f \in CallbackIds : m_preStepCallbacks' = Append(m_preStepCallbacks, f))]_vars
    /\ [][(m_postStepCallbacks' # m_postStepCallbacks) =>
             (\E f \in CallbackIds : m_postStepCallbacks' = Append(m_postStepCallbacks, f))]_vars

C8_Witness ==
    /\ last.op = "GetDerivatives"
    /\ last.hook = "fmi2Discard"
    /\ m_preStepCallbacks = <<"A", "B", "A">>
    /\ m_postStepCallbacks = <<"B", "A">>
    /\ last.trace = <<"A", "B", "A", "getDerivativesIMPL", "B", "A">>

-----------------------------------------------------------------------------
(* Claims about the variable registry, checked under SpecRegistry *)

VarNamed(name) == CHOOSE v \in m_variables : v.name = name

\* C9: every accepted registration still has its variable; no two variables of
\* one scalar type share a value reference; within a scalar type the value
\* references increase in registration order, the first being 1; and time is
\* the first Real.
C9_ValueReferences ==
    /\ \A i \in 1..Len(regLog) : \E v \in m_variables : v.name = regLog[i]
    /\ \A v, w \in m_variables : (v # w /\ v.type = w.type) => v.vr # w.vr
    /\ \A i, j \in 1..Len(regLog) :
          (i < j /\ VarNamed(regLog[i]).type = VarNamed(regLog[j]).type) =>
              VarNamed(regLog[i]).vr < VarNamed(regLog[j]).vr
    /\ \A j \in 1..Len(regLog) :
          (\A i \in 1..(j - 1) : VarNamed(regLog[i]).type # VarNamed(regLog[j]).type) =>
              VarNamed(regLog[j]).vr = 1
    /\ regLog[1] = "time" /\ VarNamed("time").type = "Real" /\ VarNamed("time").vr = 1

\* Two registrations and a rebind later, a Real and an Integer variable hold the
\* same value reference, and a second Real holds the next one.
C9_Witness ==
    /\ last.op = "RebindVariable"
    /\ last.ret = "true"
    /\ \E v, w \in m_variables : v.type = "Real" /\ w.type = "Integer" /\ v.vr = w.vr
    /\ \E v \in m_variables : v.type = "Real" /\ v.vr = 2 /\ v.varbind = PointerTo("q2")

\* C10: a lookup by (value reference, scalar type) yields the one variable that
\* has both, and yields none exactly when no variable has both.
C10_LookupByValrefType ==
    last.op = "fmi2GetVariable" =>
        LET matches == {v \in m_variables : v.vr = last.vr /\ v.type = last.type}
        IN  /\ Cardinality(matches) <= 1
            /\ matches = {} => last.name = "none"
            /\ matches # {} => \E v \in matches : v.name = last.name

\* The Integer with value reference 1 is found although a Real holds 1 as well.
C10_Witness ==
    /\ last.op = "fmi2GetVariable"
    /\ last.type = "Integer"
    /\ last.vr = 1
    /\ last.name = "x"
    /\ VarNamed("time").vr = 1
    /\ VarNamed("x").type = "Integer"


-----------------------------------------------------------------------------
(* Claims about registration, checked under SpecRegistration *)

\* The unit name resolves: it is registered, or a common unit has it.
UnitResolves(unitname, units) ==
    unitname \in DOMAIN units \/ \E u \in common_unitdefinitions : u.name = unitname

-----------------------------------------------------------------------------
(* Claims about start values, checked under SpecFlags *)

\* The start-value table, its rows read from the top.
StartRule(causality, initial) ==
    IF initial = "calculated" \/ causality = "independent" THEN "forbidden"
    ELSE IF initial \in {"exact", "approx"} \/ causality = "input" THEN "required"
    ELSE "optional"

\* C13: the flags of every variable are those of the start-value table for its
\* causality and initial: forbidden is neither allowed nor required, required
\* is both, optional is allowed and not required.
C13_StartFlagsMatchTable ==
    \A v \in m_variables :
        /\ StartRule(v.causality, v.initial) = "forbidden" =>
               ~v.allowed_start /\ ~v.required_start
        /\ StartRule(v.causality, v.initial) = "required" =>
               v.allowed_start /\ v.required_start
        /\ StartRule(v.causality, v.initial) = "optional" =>
               v.allowed_start /\ ~v.required_start

\* C14: a variable whose causality is independent or whose initial is
\* calculated has no start value, after registration and after SetStartVal.
C14_ForbiddenStartNeverSet ==
    \A v \in m_variables :
        (v.causality = "independent" \/ v.initial = "calculated") => ~v.has_start


-----------------------------------------------------------------------------
(* Claims about bindings and values, checked under SpecBinding *)

\* C15: an accepted registration leaves the variable with the value behind its
\* binding as start value when its start is required, and without start value
\* otherwise; no later step (assignments to the members, sets by the host,
\* rebinds) changes whether a variable has a start value or what it is.
C15_StartCapturedAtRegistration ==
    /\ [][(last'.op = "AddFmuVariable" /\ last'.ret = "ok") =>
             \E w \in m_variables' :
                 /\ w.name = last'.arg.name
                 /\ w.required_start => (w.has_start /\ w.start = mem[last'.arg.varbind.cell])
                 /\ ~w.required_start => ~w.has_start]_vars
    /\ [][\A v \in m_variables : \A w \in m_variables' :
             v.name = w.name => (w.has_start = v.has_start /\ w.start = v.start)]_vars

\* x was registered while its member held 1; the member holds 0 again and x is
\* bound to another member, and the start value is still 1.
C15_Witness ==
    /\ last.op = "AssignMember"
    /\ mem["q0"] = 0 /\ mem["q2"] = 0
    /\ \E v \in m_variables :
          /\ v.name = "x" /\ v.causality = "input"
          /\ v.varbind = PointerTo("q2")
          /\ v.has_start /\ v.start = 1

\* C16: RebindVariable under a name no variable has returns false and leaves
\* the variables as they were; under the name of a variable it returns true and
\* the variables afterwards are the ones before with that variable's binding
\* replaced and nothing else; counters, units and members are untouched.
C16_RebindReplacesOnlyBinding ==
    [][(last'.op = "RebindVariable") =>
          /\ UNCHANGED <<m_valueReferenceCounter, m_unitDefinitions, regLog, structure, mem,
                   logging, files>>
          /\ IF \E v \in m_variables : v.name = last'.arg.name
             THEN /\ last'.ret = "true"
                  /\ \E v \in m_variables :
                        /\ v.name = last'.arg.name
                        /\ m_variables' = (m_variables \ {v}) \cup
                                          {[v EXCEPT !.varbind = last'.arg.varbind]}
                  /\ Cardinality(m_variables') = Cardinality(m_variables)
             ELSE /\ last'.ret = "false"
                  /\ m_variables' = m_variables]_vars

\* The accessor-bound output, registered with start value 1, is now bound to a
\* member and everything else about it is as registered.
C16_Witness ==
    /\ last.op = "RebindVariable"
    /\ last.ret = "true"
    /\ \E v \in m_variables :
          /\ v.name = "x" /\ v.causality = "output" /\ v.initial = "exact"
          /\ v.varbind = PointerTo("q0")
          /\ v.vr = 2 /\ v.has_start /\ v.start = 1 /\ v.required_start

-----------------------------------------------------------------------------
(* Claims about derivatives, checked under SpecDerivatives *)

Registered(name) == \E v \in m_variables : v.name = name

\* C18: DeclareStateDerivative fails and leaves m_derivatives alone when the
\* derivative or the state is not a registered variable; otherwise, whatever
\* the dependency names, it returns with (state, dependency names) stored
\* under the derivative name, so that isDerivative gives that state name;
\* isDerivative of a name without a record gives the empty string.
C18_DerivativeDeclared ==
    /\ [][(last'.op = "DeclareStateDerivative") =>
             IF ~Registered(last'.name) \/ ~Registered(last'.state)
             THEN last'.ret = Exception /\ m_derivatives' = m_derivatives
             ELSE /\ last'.ret = "ok"
                  /\ last'.name \in DOMAIN m_derivatives'
                  /\ m_derivatives'[last'.name] =
                         [state |-> last'.state, deps |-> last'.deps]
                  /\ isDerivative(m_derivatives', last'.name) = last'.state]_vars
    /\ [](last.op = "isDerivative" =>
             IF last.name \in DOMAIN m_derivatives
             THEN last.ret = m_derivatives[last.name].state
             ELSE last.ret = "")

-----------------------------------------------------------------------------
(* Claims about dependencies and the export, checked under SpecDependencies *)

\* C19: DeclareVariableDependencies fails and leaves m_variableDependencies
\* alone when the variable or any of the dependency names is not registered;
\* otherwise the list of the variable becomes its list before the call
\* followed by the new names, and the lists of the other variables stay.
C19_DependenciesAppended ==
    [][(last'.op = "DeclareVariableDependencies") =>
          LET old == IF last'.name \in DOMAIN m_variableDependencies
                     THEN m_variableDependencies[last'.name] ELSE <<>>
          IN  IF \/ ~Registered(last'.name)
                 \/ \E i \in 1..Len(last'.deps) : ~Registered(last'.deps[i])
              THEN /\ last'.ret = Exception
                   /\ m_variableDependencies' = m_variableDependencies
              ELSE /\ last'.ret = "ok"
                   /\ DOMAIN m_variableDependencies' =
                          (DOMAIN m_variableDependencies) \cup {last'.name}
                   /\ m_variableDependencies'[last'.name] = old \o last'.deps
                   /\ \A n \in DOMAIN m_variableDependencies :
                          n # last'.name =>
                              m_variableDependencies'[n] = m_variableDependencies[n]]_vars

\* Two declarations for x, time and then x, while v has a list of its own.
C19_Witness ==
    /\ last.op = "DeclareVariableDependencies"
    /\ last.ret = "ok"
    /\ last.name = "x"
    /\ last.deps = <<"x">>
    /\ DOMAIN m_variableDependencies = {"v", "x"}
    /\ m_variableDependencies["x"] = <<"time", "x">>
    /\ m_variableDependencies["v"] = <<"time">>

\* The variables that need dependencies: outputs with initial approx or
\* calculated, and calculated parameters.
NeedsDependencies(v) ==
    \/ v.causality = "output" /\ v.initial \in {"approx", "calculated"}
    \/ v.causality = "calculatedParameter"

\* C20: the export returns exactly when every variable that needs
\* dependencies has a list with at least one name, and otherwise ends with one
\* of the two missing-dependency errors.
C20_ExportNeedsDependencies ==
    (last.op = "ExportModelDescription") =>
        LET complete == \A v \in m_variables :
                            NeedsDependencies(v) =>
                                /\ v.name \in DOMAIN m_variableDependencies
                                /\ m_variableDependencies[v.name] # <<>>
        IN  /\ (last.ret = "ok") <=> complete
            /\ ~complete =>
                   /\ last.ret = Exception
                   /\ last.what \in {MissingOutputDependencies,
                                     MissingCalculatedParameterDependencies}


-----------------------------------------------------------------------------
(* Claims about the export, checked under SpecExport *)

\* The 1-based position of a registered name among the names of m_variables.
Position(name) ==
    Cardinality({v \in m_variables : NameIndex(v.name) <= NameIndex(name)})

\* C21: when a variable that needs dependencies has no entry, the export
\* ends with the exception, leaves the file as it found it (absent or with
\* its old content) and runs neither the write nor the post-export hook;
\* otherwise the file is written, and the post-export hook comes after the
\* write.
C21_NothingWrittenOnFailedValidation ==
    [][(last'.op = "ExportModelDescription") =>
          LET valid == \A v \in m_variables :
                           NeedsDependencies(v) => v.name \in DOMAIN m_variableDependencies
              steps == last'.trace
          IN  IF ~valid
              THEN /\ last'.ret = Exception
                   /\ modelDescription_xml' = modelDescription_xml
                   /\ \A i \in 1..Len(steps) :
                          steps[i] \notin {"outFile", "postModelDescriptionExport"}
              ELSE /\ last'.ret = "ok"
                   /\ Len(modelDescription_xml') = 1
                   /\ \E i, j \in 1..Len(steps) :
                          /\ i < j
                          /\ steps[i] = "outFile"
                          /\ steps[j] = "postModelDescriptionExport"
                   /\ \A j \in 1..Len(steps) :
                          steps[j] = "postModelDescriptionExport" =>
                              \E i \in 1..(j - 1) : steps[i] = "outFile"]_vars

\* A failed export in a directory that had a description.
C21_Witness ==
    /\ last.op = "ExportModelDescription"
    /\ last.ret = Exception
    /\ last.trace = <<"preModelDescriptionExport">>
    /\ modelDescription_xml = <<OldDocument>>

-----------------------------------------------------------------------------
(* Claims about logging, checked under SpecLogging *)

\* Whether sendToLog is to emit for a category, by the three conditions.
Emits(cat) ==
    IF cat \notin DOMAIN m_logCategories_enabled THEN TRUE
    ELSE IF m_logCategories_enabled[cat] THEN TRUE
    ELSE m_debug_logging_enabled /\ cat \in m_logCategories_debug

\* C23: sendToLog returns, having called the host's logger once with the
\* instance name, the status, the category and the message it was given when
\* the category is not in the enablement map, or is enabled, or debug logging
\* is on and the category is a debug category, and not at all otherwise; the
\* enablement map is the same after the call.
C23_SendToLog ==
    [][(last'.op = "sendToLog") =>
          /\ last'.ret = "ok"
          /\ last'.log = IF Emits(last'.name)
                         THEN <<[instanceName |-> m_instanceName, status |-> last'.hook,
                                 category |-> last'.name, message |-> last'.what]>>
                         ELSE <<>>
          /\ m_logCategories_enabled' = m_logCategories_enabled]_vars

-----------------------------------------------------------------------------
(* Claims about the entry points that do nothing, checked under Spec *)

\* C24: each of the inert entry points returns fmi2OK whatever the lifecycle
\* state is, and the lifecycle state, the values, the registries, the callback
\* lists, the log settings and the files are the same after it as before.
C24_InertEntryPoints ==
    [][(last'.op \in InertEntryPoints) =>
          /\ last'.ret = "fmi2OK"
          /\ last'.pre = m_fmuMachineState
          /\ UNCHANGED <<phase, m_fmuType, m_fmuMachineState, mem, registry, structure,
                         callbacks, logging, files>>]_vars

\* fmi2Reset on an instance whose step ended with fmi2Fatal.
C24_Witness ==
    /\ last.op = "fmi2Reset"
    /\ last.ret = "fmi2OK"
    /\ last.pre = "fatal"
    /\ m_fmuMachineState = "fatal"

-----------------------------------------------------------------------------
(* Claims about the generator, checked under SpecGenerator *)

\* C25: createModelDescription always returns to its caller; it returns true
\* exactly when one of the two instantiations succeeded and the export wrote
\* the document, and in every other case (no instantiation succeeded, or a
\* variable that needs dependencies has none declared) it returns false with
\* a message in err_msg.
C25_FailuresStayInside ==
    [][(last'.op = "createModelDescription") =>
          LET valid == \A v \in m_variables :
                           NeedsDependencies(v) => v.name \in DOMAIN m_variableDependencies
              instantiated == last'.types # <<>>
          IN  /\ last'.ret \in {"true", "false"}
              /\ (last'.ret = "true") <=> (instantiated /\ valid)
              /\ (last'.ret = "true") => Len(modelDescription_xml') = 1
              /\ (last'.ret = "false") =>
                     last'.what # "none" /\ modelDescription_xml' = modelDescription_xml]_vars

-----------------------------------------------------------------------------
(* Claims about the run-time entry points, checked under SpecRunTime *)

Delegations == {"SetTime", "GetContinuousStates", "SetContinuousStates", "GetDerivatives",
                "NewDiscreteStates", "CompletedIntegratorStep"}

\* C26: each of the six delegating methods returns the status its hook
\* returned, whichever of the statuses that is, and leaves m_fmuMachineState
\* as it was; a step that changes m_fmuMachineState is a step of
\* EnterInitializationMode, ExitInitializationMode or DoStep.
C26_StatusPassedThrough ==
    /\ [][(last'.op \in Delegations) =>
              /\ last'.ret = last'.hook
              /\ last'.hook \in HookStatus
              /\ m_fmuMachineState' = m_fmuMachineState]_vars
    /\ [][(m_fmuMachineState' # m_fmuMachineState) =>
              last'.op \in {"EnterInitializationMode", "ExitInitializationMode",
                            "DoStep"}]_vars

\* SetContinuousStates whose hook returned fmi2Warning, between two steps.
C26_Witness ==
    /\ last.op = "SetContinuousStates"
    /\ last.hook = "fmi2Warning"
    /\ last.ret = "fmi2Warning"
    /\ last.pre = "stepCompleted"
    /\ m_fmuMachineState = "stepCompleted"

RunTimeOps == Delegations \cup {"EnterInitializationMode", "ExitInitializationMode", "DoStep",
                                "fmi2GetVariable", "fmi2SetVariable", "sendToLog"}

\* C27: a step of a lifecycle or run-time entry point, of a typed get or set
\* or of sendToLog leaves the variables with their value references, the
\* counters, the units, the derivative and dependency records, the callback
\* lists and the log settings as they were.
C27_RegistriesFrozenAtRunTime ==
    [][(last'.op \in RunTimeOps) =>
          UNCHANGED <<m_variables, m_valueReferenceCounter, m_unitDefinitions, regLog,
                      structure, callbacks, m_fmuType, logging, files>>]_vars

\* A set by value reference wrote 1 through the binding of x while the
\* instance was stepping.
C27_Witness ==
    /\ last.op = "fmi2SetVariable"
    /\ last.ret = "fmi2OK"
    /\ last.name = "x"
    /\ mem["q0"] = 1
    /\ m_fmuMachineState = "stepCompleted"
    /\ Cardinality(m_variables) = 2
    /\ m_postStepCallbacks = <<"A">>

-----------------------------------------------------------------------------
(* Claims about what the export leaves behind, checked under SpecExport *)

\* C28: a step of ExportModelDescription, whether it returns or throws,
\* leaves the variables, the counters, the units, the derivative and
\* dependency records, the log categories and the lifecycle state as they
\* were; and an export that follows a successful export succeeds and writes
\* the same document.
C28_ExportDoesNotMutate ==
    /\ [][(last'.op = "ExportModelDescription") =>
              UNCHANGED <<m_variables, m_valueReferenceCounter, m_unitDefinitions, regLog,
                          m_derivatives, m_variableDependencies, callbacks, logging,
                          m_fmuType, m_fmuMachineState, mem, m_resources_location>>]_vars
    /\ [][(last.op = "ExportModelDescription" /\ last.ret = "ok"
              /\ last'.op = "ExportModelDescription") =>
              /\ last'.ret = "ok"
              /\ modelDescription_xml' = modelDescription_xml]_vars

\* A successful export of a component with a derivative record and a
\* dependency record.
C28_Witness ==
    /\ last.op = "ExportModelDescription"
    /\ last.ret = "ok"
    /\ DOMAIN m_derivatives = {"der(x)"}
    /\ DOMAIN m_variableDependencies = {"x"}
    /\ modelDescription_xml # <<OldDocument>>

-----------------------------------------------------------------------------
(* Claims about the resource location, checked under SpecResources *)

\* The scheme and the path of the resource locations that have one of the two
\* forms, scheme://authority/path and scheme:/path.
HasForm(uri) ==
    uri \in {FileLocation, FileAuthorityLocation, FileShortLocation, FileOneLetterLocation,
             HttpLocation, FileQueryLocation}
SchemeOf(uri) == IF uri = HttpLocation THEN <<"h", "t", "t", "p">> ELSE <<"f", "i", "l", "e">>
PathOf(uri) ==
    CASE uri \in {FileLocation, FileOneLetterLocation, HttpLocation, FileQueryLocation} -> <<"r">>
      [] uri \in {FileAuthorityLocation, FileShortLocation} -> <<"r", "/", "d">>

-----------------------------------------------------------------------------
(* Claims about the units, checked under SpecUnits *)

\* C30: the units "1" and "" are registered in every state; no step takes a
\* name out of the unit registry; registering a unit returns and leaves the
\* given definition under its name, whatever was there, and the other names
\* as they were; the unit of every variable is a name of the registry.
C30_UnitsRegistered ==
    /\ []({"1", ""} \subseteq DOMAIN m_unitDefinitions)
    /\ [][(DOMAIN m_unitDefinitions) \subseteq (DOMAIN m_unitDefinitions')]_vars
    /\ [][(last'.op = "addUnitDefinition") =>
              /\ last'.ret = "ok"
              /\ DOMAIN m_unitDefinitions' = (DOMAIN m_unitDefinitions) \cup {last'.unit.name}
              /\ m_unitDefinitions'[last'.unit.name] = last'.unit
              /\ \A n \in DOMAIN m_unitDefinitions :
                     n # last'.unit.name => m_unitDefinitions'[n] = m_unitDefinitions[n]]_vars
    /\ [](\A v \in m_variables : v.unit \in DOMAIN m_unitDefinitions)

\* "m" registered as a unit of time after variables took "m" and "rad", and
\* a definition given for "1".
C30_Witness ==
    /\ last.op = "addUnitDefinition"
    /\ last.unit = [name |-> "m", exp |-> <<0, 0, 1, 0, 0, 0, 0, 0>>]
    /\ m_unitDefinitions["m"] = last.unit
    /\ m_unitDefinitions["1"].exp = <<0, 0, 0, 0, 0, 0, 0, 1>>
    /\ \E v \in m_variables : v.unit = "m"
    /\ \E v \in m_variables : v.unit = "rad"
    /\ DOMAIN m_unitDefinitions = {"1", "", "s", "m", "rad"}

-----------------------------------------------------------------------------
(* Claims about the generator program, checked under SpecMain *)

\* The library name of a run ends in ".fmu".
Packaged(name) == Len(name) >= Len(suffix) /\ SubSeq(name, Len(name) - 3, Len(name)) = suffix

\* C31: a run of the generator whose main returns gives 4 when the argument
\* count is not 3 or 4, and then nothing was linked; else 3 when the library
\* name ends in ".fmu", and then nothing was linked; 1 when linking was tried
\* and failed, and then the generation function was not called; 2 when the
\* generation function was called and reported failure; 0 only when it was
\* called and reported success with the document written. Each of the codes
\* 1..4 is returned for its own cause only.
C31_ExitCodes ==
    [][(last'.op = "main") =>
          LET argc == Len(last'.argv) + 1
              counted == argc \in {3, 4}
              packaged == counted /\ Packaged(last'.argv[2])
              linked == last'.handle # "none"
              called == last'.trace = <<"RuntimeLinkLibrary", "createModelDescription">>
              valid == \A v \in m_variables :
                           NeedsDependencies(v) => v.name \in DOMAIN m_variableDependencies
          IN  /\ ~counted => last'.exit = 4 /\ ~linked
              /\ packaged => last'.exit = 3 /\ ~linked
              /\ last'.handle = "null" => last'.exit = 1 /\ ~called
              /\ (called /\ last'.types = <<>>) => last'.exit = 2
              /\ last'.exit = 0 =>
                     /\ called /\ last'.types # <<>> /\ valid
                     /\ Len(modelDescription_xml') = 1
              /\ last'.exit = 4 => ~counted
              /\ last'.exit = 3 => packaged
              /\ last'.exit = 1 => counted /\ ~packaged /\ last'.handle = "null"
              /\ last'.exit = 2 =>
                     counted /\ ~packaged /\ last'.handle = "handle" /\ last'.types = <<>>
              /\ last'.ret = "returned" <=> last'.exit \in 0..4]_vars

\* A run with three arguments and a library name that passes the check of
\* the suffix, whose library does not link.
C31_Witness ==
    /\ last.op = "main"
    /\ Len(last.argv) = 3
    /\ last.argv[2] = <<"m", "o", "d", "e", "l">>
    /\ last.handle = "null"
    /\ last.exit = 1
    /\ last.path = <<"o">>
    /\ phase = "deleted"

\* C38: for every library name, a run of the generator with 3 or 4 arguments
\* gets through the check of the suffix: main returns 3 when the name ends in
\* ".fmu" and goes on to RuntimeLinkLibrary when it does not; no exception
\* leaves the check.
C38_SuffixCheckDecides ==
    [][(last'.op = "main" /\ Len(last'.argv) + 1 \in {3, 4}) =>
          IF Packaged(last'.argv[2])
          THEN last'.exit = 3 /\ last'.handle = "none"
          ELSE last'.handle # "none"]_vars

-----------------------------------------------------------------------------
(* Claims about the value references, checked under SpecReferences *)

\* The variables of a scalar type.
OfType(t) == {v \in m_variables : v.type = t}

\* C32: an AddFmuVariable that throws leaves the variables and every counter
\* of value references as they were; in every state the value references of
\* the variables of a scalar type are exactly 1..n for the n variables of
\* that type, and n is the counter of the type.
C32_NoGapsInValueReferences ==
    /\ [][(last'.op = "AddFmuVariable" /\ last'.ret = Exception) =>
              /\ m_variables' = m_variables
              /\ m_valueReferenceCounter' = m_valueReferenceCounter]_vars
    /\ [](\A t \in Types :
              /\ {v.vr : v \in OfType(t)} = 1..Cardinality(OfType(t))
              /\ m_valueReferenceCounter[t] = Cardinality(OfType(t)))

\* A registration refused for its unit, after a Real and an Integer were
\* registered next to time, one of them was rebound, and a registration was
\* refused for its name (the unit "rad" is known from it).
C32_Witness ==
    /\ last.op = "AddFmuVariable"
    /\ last.ret = Exception
    /\ last.what = UnknownUnit
    /\ Cardinality(OfType("Real")) = 2
    /\ Cardinality(OfType("Integer")) = 1
    /\ \E v \in m_variables :
           v.name # "time" /\ v.causality = "local" /\ v.varbind = PointerTo("q2")
    /\ "rad" \in DOMAIN m_unitDefinitions
    /\ \A v \in m_variables : v.unit # "rad"

\* C33: an AddFmuVariable that throws leaves the unit registry as it was,
\* also when it is refused for its name while its unit is a common unit that
\* was not registered before the call.
C33_FailedRegistrationKeepsUnits ==
    [][(last'.op = "AddFmuVariable" /\ last'.ret = Exception) =>
          m_unitDefinitions' = m_unitDefinitions]_vars

-----------------------------------------------------------------------------
(* Claims about the indices of the document, checked under SpecExport *)

\* The elements of a sequence.
Range(seq) == {seq[k] : k \in 1..Len(seq)}

\* C34: in the document a successful export wrote, the derivative attribute
\* of every variable element, every index of the Outputs block, and the index
\* and every dependency of every entry of the Derivatives and InitialUnknowns
\* blocks is in 1..N, N the number of registered variables.
C34_IndicesOfRegisteredVariables ==
    (last.op = "ExportModelDescription" /\ last.ret = "ok") =>
        LET doc == modelDescription_xml[1]
            indices == 1..Cardinality(m_variables)
        IN  /\ \A i \in 1..Len(doc.ModelVariables) :
                   Range(doc.ModelVariables[i].derivative) \subseteq indices
            /\ Range(doc.Outputs) \subseteq indices
            /\ \A e \in doc.Derivatives \cup doc.InitialUnknowns :
                   /\ e.index \in indices
                   /\ Range(e.dependencies) \subseteq indices

-----------------------------------------------------------------------------
(* Claims about the callbacks and the status, checked under SpecCallbacks *)

\* C35: whatever status the hook of DoStep or GetDerivatives returned (any of
\* the six known ones, or in DoStep one outside them, for which DoStep then
\* throws), the calls of the step are the pre-step callbacks, then the hook,
\* then all post-step callbacks; the hook is the only call between the two
\* runs of callbacks.
C35_PostStepCallbacksAlwaysRun ==
    \A status \in HookStatus :
        (last.op \in StepOps /\ last.hook = status) =>
            LET n == Len(m_preStepCallbacks)
            IN  /\ Len(last.trace) = n + 1 + Len(m_postStepCallbacks)
                /\ SubSeq(last.trace, 1, n) = m_preStepCallbacks
                /\ last.trace[n + 1] = HookOf(last.op)
                /\ SubSeq(last.trace, n + 2, Len(last.trace)) = m_postStepCallbacks
                /\ (last.op = "DoStep" /\ status = OtherStatus) => last.ret = Exception
                /\ (last.op = "GetDerivatives" \/ status # OtherStatus) => last.ret = status

\* A DoStep whose hook returned a status outside the six known ones: the two
\* post-step callbacks ran after the hook, and DoStep threw.
C35_Witness ==
    /\ last.op = "DoStep"
    /\ last.hook = OtherStatus
    /\ last.ret = Exception
    /\ m_preStepCallbacks = <<"A">>
    /\ m_postStepCallbacks = <<"B", "A">>
    /\ last.trace = <<"A", "doStepIMPL", "B", "A">>

-----------------------------------------------------------------------------
(* Claims about repeated declarations, checked under SpecStructure *)

\* C36: a DeclareStateDerivative that returns for a derivative name that has
\* a record leaves m_derivatives as it was, the record of the first
\* declaration included; one for a name without a record adds the record of
\* that name and keeps the others; nothing else changes m_derivatives, which
\* starts empty, so there is one record per derivative name declared. A
\* DeclareVariableDependencies that returns for a name that has a list
\* appends to the list.
C36_FirstDeclarationWins ==
    /\ [][(last'.op = "DeclareStateDerivative" /\ last'.ret = "ok") =>
              IF last'.name \in DOMAIN m_derivatives
              THEN m_derivatives' = m_derivatives
              ELSE /\ DOMAIN m_derivatives' = (DOMAIN m_derivatives) \cup {last'.name}
                   /\ m_derivatives'[last'.name] = [state |-> last'.state, deps |-> last'.deps]
                   /\ \A d \in DOMAIN m_derivatives : m_derivatives'[d] = m_derivatives[d]]_vars
    /\ [][(m_derivatives' # m_derivatives) =>
              (last'.op = "DeclareStateDerivative" /\ last'.ret = "ok")]_vars
    /\ [][(/\ last'.op = "DeclareVariableDependencies" /\ last'.ret = "ok"
           /\ last'.name \in DOMAIN m_variableDependencies) =>
              m_variableDependencies'[last'.name] =
                  m_variableDependencies[last'.name] \o last'.deps]_vars

\* der(x) declared the derivative of time with a dependency after it was
\* declared the derivative of x without one, next to a record for x and a
\* dependency list of x that two calls built.
C36_Witness ==
    /\ last.op = "DeclareStateDerivative"
    /\ last.ret = "ok"
    /\ last.name = "der(x)" /\ last.state = "time" /\ last.deps = <<"x">>
    /\ DOMAIN m_derivatives = {"der(x)", "x"}
    /\ m_derivatives["der(x)"] = [state |-> "x", deps |-> <<>>]
    /\ "x" \in DOMAIN m_variableDependencies
    /\ m_variableDependencies["x"] = <<"time", "x">>

-----------------------------------------------------------------------------
(* Claims about the host's choice of log categories, checked under SpecLogging *)

\* C37: fmi2SetDebugLogging(loggingOn, categories) returns fmi2OK and logs
\* nothing; afterwards every listed category is in the enablement map with
\* the value loggingOn, whether it was in the map or not, every other
\* category has the value it had, and the map has no further category (so an
\* empty list changes nothing); the debug-logging flag, the debug set and the
\* rest of the component are unchanged; and the LogCategories element an
\* export would write has a Category for every listed category.
C37_SetDebugLogging ==
    [][(last'.op = "fmi2SetDebugLogging") =>
          LET listed == Range(last'.deps)
              loggingOn == last'.what = "fmi2True"
          IN  /\ last'.ret = "fmi2OK"
              /\ last'.log = <<>>
              /\ DOMAIN m_logCategories_enabled' = (DOMAIN m_logCategories_enabled) \cup listed
              /\ \A cat \in listed : m_logCategories_enabled'[cat] = loggingOn
              /\ \A cat \in (DOMAIN m_logCategories_enabled) \ listed :
                     m_logCategories_enabled'[cat] = m_logCategories_enabled[cat]
              /\ listed = {} => m_logCategories_enabled' = m_logCategories_enabled
              /\ m_debug_logging_enabled' = m_debug_logging_enabled
              /\ m_logCategories_debug' = m_logCategories_debug
              /\ \A cat \in listed :
                     \E category \in LogCategories(m_logCategories_enabled',
                                                   m_logCategories_debug') :
                         category.name = cat
              /\ UNCHANGED <<phase, m_fmuMachineState, registry, structure, callbacks>>]_vars

\* The host switches off logEvents, a category the model did not list, on a
\* component instantiated with logging off: the map has it from then on.
C37_Witness ==
    /\ last.op = "fmi2SetDebugLogging"
    /\ last.deps = <<"logEvents">>
    /\ last.what = "fmi2False"
    /\ ~m_debug_logging_enabled
    /\ DOMAIN m_logCategories_enabled = {"logAll", "logEvents"}
    /\ m_logCategories_enabled["logAll"]
    /\ ~m_logCategories_enabled["logEvents"]
    /\ [name |-> "logEvents", description |-> "NotDebugCategory"]
           \in LogCategories(m_logCategories_enabled, m_logCategories_debug)

=============================================================================
